---- MODULE Spec2Model ----
(***************************************************************************)
(* Model of the elasticsearch-reindexer migration orchestrator             *)
(* (service/es_service.go): the goroutine started by NewEsService, the     *)
(* phases of MigrateIndex, and the part of an Elasticsearch cluster the    *)
(* orchestrator talks to (indices, documents, write blocks, aliases, the   *)
(* asynchronous reindex task).                                             *)
(*                                                                         *)
(* One action is one step of the goroutine that ends in at most one        *)
(* cluster request, so that the cluster can move between two requests:     *)
(* clients keep writing to the source index until its write block is in    *)
(* force, an accepted settings update becomes visible later, and the       *)
(* reindex task copies documents in the background.                        *)
(***************************************************************************)
EXTENDS Integers, Sequences, FiniteSets, TLC

(***************************************************************************)
(* Bounds of the model.                                                    *)
(***************************************************************************)
\* documents are numbered 1..MaxDocs
MaxDocs == 2
\* client handles the connection supervisor delivers over the channel
MaxHandles == 2
\* failed observations (transport errors, stall events, write block not yet
\* seen) one polling loop may count before the model stops producing more
MaxTaskErrs == 2

(***************************************************************************)
(* Program constants and test fixtures.                                    *)
(***************************************************************************)
\* math.MaxInt32, the error budget MigrateIndex hands to both polling loops
MaxInt32 == 2147483647
\* length of the stall window of waitForCompletion
HistoryLen == 5

Nil == "<nil>"
NilClient == "<nil client>"
ErrNoIndexVersion == "No index version has been specified"
ErrNoElasticClient == "No ElasticSearch client available"
ErrNoConnectivity == "Couldn't establish connectivity."
\* any failure of the transport below a request (connection refused, timeout)
ErrTransport == "elastic: no available connection"

AliasName == "test-index"
OldVersion == "0.0.1"
NextVersion == "0.0.2"
StaleVersion == "0.0.0"
OldIndexName == AliasName \o "-" \o OldVersion
NewIndexName == AliasName \o "-" \o NextVersion
\* an index of an earlier version, left in the cluster
StaleIndexName == AliasName \o "-" \o StaleVersion
IndexNames == {StaleIndexName, OldIndexName, NewIndexName}
AliasNames == {AliasName}
\* the second alias of the tests, and the aliases of a cluster that has it
AliasForAllConcepts == "aliasForAllConcepts"
AllAliasNames == AliasNames \cup {AliasForAllConcepts}
Docs == 1..MaxDocs

OldMapping == "old-mapping.json contents"
NewMapping == "new-mapping.json contents"
TestNewMappingFile == "test/new-mapping.json"
TestAliasFilterFile == "test/alias-filter.json"
NoSuchFile == "./no-such-file.json"
FilterQuery == "alias-filter.json contents"
\* the files the process can read
Files == [f \in {TestNewMappingFile, TestAliasFilterFile} |->
            IF f = TestNewMappingFile THEN NewMapping ELSE FilterQuery]

\* index settings as IndexGetSettings shows them: no "blocks" object, a
\* "blocks" object without "write", or the value of index.blocks.write
NoBlocks == "<no blocks>"
NoWrite == "<no write>"
BlockStates == {NoBlocks, NoWrite, "false", "true"}

Clients == {NilClient, "ec1"}
NoTask == [src |-> "", dest |-> "", todo |-> {}]
\* the iterations of one call of a polling loop are numbered up to
\* MaxPollNo, which no call within the bounds reaches: between two changes of
\* the count or of the error counter lie at most HistoryLen + 1 iterations
MaxPollNo == (HistoryLen + 1) * (MaxTaskErrs + MaxDocs + 1)
\* no iteration of the polling loop yet
NoPoll == [n |-> 0, finished |-> FALSE, done |-> 0, err |-> Nil]
\* the health checks that run beside the goroutine (HTTP handlers)
Checkers == {"h1", "h2"}
\* the lock free, no call of setElasticClient, no health check under way
Unlocked == [w |-> FALSE, waiting |-> FALSE, r |-> {}]
NoSetter == [pc |-> "idle", ec |-> NilClient, prev |-> NilClient, seen |-> NilClient,
             health |-> Nil]
\* the handles the connection supervisor can send
Handles == {"ec1", "ec2"}
\* what a read of es.elasticClient would give in the middle of an assignment
\* that is not atomic
PartialClient == "<partial>"
\* the goroutine as a holder of the read lock
Migrator == "MigrateIndex"
NoChecker == [pc |-> "idle", seen |-> NilClient]
\* no mappings health check yet
NoMappingsCheck == [pc |-> "idle", w |-> "", err |-> Nil, errRet |-> Nil, check |-> FALSE,
                    prog |-> "", done |-> FALSE, h0 |-> 0, over0 |-> FALSE,
                    e0 |-> Nil, stable |-> TRUE]

VARIABLES
    \* ---- the cluster
    indices,        \* names of the indices that exist
    docs,           \* index name -> set of documents
    mappings,       \* index name -> mapping document
    blocks,         \* index name -> write block setting
    pending,        \* indices with an accepted, not yet applied write block
    aliases,        \* alias name -> set of indices that carry it
    aliasFilters,   \* alias name -> filter query ("" if none)
    task,           \* the asynchronous reindex task
    \* ---- esService fields and configuration
    elasticClient, indexVersion, mappingFile, aliasFilterFile,
    aliasForAllConcepts,    \* name of the second, unfiltered alias; "" if none
    progress, migrationCheck, migrationErr,
    \* ---- connection supervisor
    handlesLeft,
    \* ---- the goroutine of NewEsService and the locals of MigrateIndex
    pc, client, requireUpdate, currentIndexName, newIndexName,
    count, completeCount, taskErrCount, history, maxErrors, ret,
    \* ---- history variables (observers, not program state)
    phase,          \* phase of the run's latest step
    issued,         \* kinds of cluster request the current run has issued
    aliasStart,     \* aliases when the current run started
    alias0,         \* aliases in the initial state
    aliasReq,       \* actions of the run's alias request, <<>> if none
    opErr,          \* error of the run's latest phase function, Nil if none
    lastPoll,       \* latest iteration of a polling loop: its number in the call
                    \* and what isTaskComplete returned (waitForCompletion), or
                    \* the error of IndexGetSettings and whether the write
                    \* block was seen (waitForReadOnly)
    \* ---- the environment
    faults,         \* whether the requests of the polling loops may fail below
                    \* the cluster
    \* ---- the handle lock (sync.RWMutex of esService) and its users
    mu,             \* [w: write-locked, waiting: a writer waits, r: readers holding it]
    setter,         \* the goroutine around setElasticClient: [pc, ec, prev, seen,
                    \* health], the handle it received, the one it replaces,
                    \* the handle its healthChecker read and that check's error
    checker,        \* health check -> [pc, seen]: position and handle it read
    \* ---- the mappings health check (an HTTP handler beside the goroutine)
    mcheck          \* [pc, w, err, errRet, check, prog, done, h0, over0, e0,
                    \* stable]: its position, the first word of a two-word
                    \* value it is reading, the values of migrationErr (in the
                    \* condition and in the return statement), migrationCheck
                    \* and progress as it read them, whether it has returned,
                    \* and (history) handlesLeft, whether the goroutine was
                    \* back at the channel and the value of migrationErr when
                    \* the check began, and whether migrationErr held that
                    \* value at each of the check's reads of it

clusterVars == <<indices, docs, mappings, blocks, pending, aliases, aliasFilters, task>>
configVars == <<indexVersion, mappingFile, aliasFilterFile, aliasForAllConcepts, alias0,
                faults>>
lockVars == <<mu, setter, checker>>
stateVars == <<progress, migrationCheck, migrationErr>>
localVars == <<client, requireUpdate, currentIndexName, newIndexName,
               count, completeCount, taskErrCount, history, maxErrors, ret>>
ghostVars == <<phase, issued, aliasStart, aliasReq, opErr, lastPoll>>
vars == <<clusterVars, configVars, stateVars, elasticClient, handlesLeft, pc,
          localVars, ghostVars, lockVars, mcheck>>

(***************************************************************************)
(* Pure helpers.                                                           *)
(***************************************************************************)
\* fmt.Sprintf("%s-%s", aliasName, es.indexVersion)
RequiredIndex(aliasName, version) == aliasName \o "-" \o version

\* s contains sub (strings.Contains, as the tests' assert.Contains use it)
Contains(s, sub) ==
    \E i \in 1..(Len(s) - Len(sub) + 1) : SubSeq(s, i, i + Len(sub) - 1) = sub

\* the orders in which a Go map iteration may list the elements of S
Orders(S) ==
    {o \in [1..Cardinality(S) -> S] : \A i, j \in 1..Cardinality(S) : o[i] = o[j] => i = j}

RECURSIVE JoinSpace(_)
\* fmt's %v of the elements of a []string, separated by blanks
JoinSpace(seq) ==
    IF Len(seq) = 0 THEN ""
    ELSE IF Len(seq) = 1 THEN seq[1]
    ELSE seq[1] \o " " \o JoinSpace(Tail(seq))

\* strconv.ParseBool, the error dropped: false for anything it does not accept
ParseBool(s) == s \in {"1", "t", "T", "TRUE", "true", "True"}

\* a ReadFile that returns no bytes and no error for a file it cannot read
ReadFile_NoError(path) ==
    [err |-> Nil, data |-> IF path \in DOMAIN Files THEN Files[path] ELSE ""]

\* ioutil.ReadFile
ReadFile(path) ==
    IF path \in DOMAIN Files
    THEN [err |-> Nil, data |-> Files[path]]
    ELSE [err |-> "open " \o path \o ": no such file or directory", data |-> ""]

ErrNoSuchIndex(name) == "elastic: Error 404 (Not Found): no such index [" \o name \o "]"
ErrAlreadyExists(name) ==
    "elastic: Error 400 (Bad Request): index [" \o name \o "] already exists"
ErrReadOnlyStalled(name) ==
    "setting index read-only " \o name \o ": process may have stalled"
ErrReindexStalled(name) == "reindexing into " \o name \o ": process may have stalled"
ErrMultipleIndices(aliasName, listed) ==
    "alias " \o aliasName \o " points to multiple indices: [" \o JoinSpace(listed) \o "]"

\* fmt.Sprintf("%v / %v documents reindexed", done, completeCount)
ProgressString(done, expected) ==
    ToString(done) \o " / " \o ToString(expected) \o " documents reindexed"

(***************************************************************************)
(* What the cluster answers.  A request either fails below the cluster     *)
(* (transport error, the cluster untouched) or is answered from the        *)
(* cluster's state.                                                        *)
(***************************************************************************)
\* GET _cluster/health
HealthResponses ==
    {[err |-> ErrTransport, status |-> ""]}
        \cup {[err |-> Nil, status |-> s] : s \in {"green", "yellow", "red"}}

\* GET _aliases, then AliasesResult.IndicesByAlias(aliasName): the indices
\* come out of a map, in any order
AliasesResponses(aliasName) ==
    {[err |-> ErrTransport, listed |-> <<>>]}
        \cup {[err |-> Nil, listed |-> o] : o \in Orders(aliases[aliasName])}

\* PUT {index} replacing an index that exists
EsCreateIndex_Overwrite(ok, name) ==
    IF ~ok THEN ErrTransport ELSE Nil

\* PUT {index} with a mapping: refused if the index exists
EsCreateIndex(ok, name) ==
    IF ~ok THEN ErrTransport
    ELSE IF name \in indices THEN ErrAlreadyExists(name)
    ELSE Nil

\* PUT {index}/_settings {"index.blocks.write": "true"}.  The outcome is
\* "error" (not sent), "applied" (visible at once) or "pending" (accepted,
\* visible only later)
PutSettingsOutcomes == {"error", "applied", "pending"}
EsPutSettings(outcome, name) ==
    IF outcome = "error" THEN ErrTransport
    ELSE IF name \notin indices THEN ErrNoSuchIndex(name)
    ELSE Nil
BlocksAfterPut(outcome, name) ==
    IF EsPutSettings(outcome, name) = Nil /\ outcome = "applied"
    THEN [blocks EXCEPT ![name] = "true"]
    ELSE blocks
PendingAfterPut(outcome, name) ==
    IF EsPutSettings(outcome, name) # Nil THEN pending
    ELSE IF outcome = "applied" \/ blocks[name] = "true" THEN pending \ {name}
    ELSE pending \cup {name}

\* GET {index}/_count: 0 together with the error when the request fails
EsCount(ok, name) ==
    IF ~ok THEN [count |-> 0, err |-> ErrTransport]
    ELSE IF name \notin indices THEN [count |-> 0, err |-> ErrNoSuchIndex(name)]
    ELSE [count |-> Cardinality(docs[name]), err |-> Nil]

\* POST _aliases with a list of actions, applied together or not at all
RECURSIVE AliasActionsErr(_)
AliasActionsErr(actions) ==
    IF Len(actions) = 0 THEN Nil
    ELSE IF Head(actions).index \notin indices THEN ErrNoSuchIndex(Head(actions).index)
    ELSE AliasActionsErr(Tail(actions))
RECURSIVE AliasesAfter(_, _)
AliasesAfter(actions, al) ==
    IF Len(actions) = 0 THEN al
    ELSE LET a == Head(actions) IN
         AliasesAfter(Tail(actions),
            [al EXCEPT ![a.alias] =
                IF a.op = "remove" THEN @ \ {a.index} ELSE @ \cup {a.index}])
RECURSIVE FiltersAfter(_, _)
FiltersAfter(actions, fl) ==
    IF Len(actions) = 0 THEN fl
    ELSE LET a == Head(actions) IN
         FiltersAfter(Tail(actions),
            IF a.op = "add" THEN [fl EXCEPT ![a.alias] = a.filter] ELSE fl)
EsUpdateAliases(ok, actions) ==
    IF ~ok THEN ErrTransport ELSE AliasActionsErr(actions)

\* the actions sent one request each, up to the first that fails
RECURSIVE updateAliasEffect_OneByOne(_, _, _)
updateAliasEffect_OneByOne(ok, actions, al) ==
    IF Len(actions) = 0 THEN al
    ELSE IF EsUpdateAliases(ok, <<Head(actions)>>) # Nil THEN al
    ELSE updateAliasEffect_OneByOne(ok, Tail(actions), AliasesAfter(<<Head(actions)>>, al))

\* aliasService.Do(ctx): the aliases after the one request that carries all
\* the actions
updateAliasEffect(ok, actions, al) ==
    IF EsUpdateAliases(ok, actions) = Nil THEN AliasesAfter(actions, al) ELSE al

\* the documents of the tests that the filter of test/alias-filter.json
\* matches: writeTestConcepts gives every other document, the first included,
\* a non-empty "aliases" field
MatchesFilter(d) == (d - 1) % 2 = 0

\* Count(alias): the documents a search through the alias sees
AliasCount(a) ==
    Cardinality({d \in UNION {docs[i] : i \in aliases[a]} :
                    aliasFilters[a] = "" \/ MatchesFilter(d)})

(***************************************************************************)
(* The functions of es_service.go, each as the code computes it from the   *)
(* answers of the cluster.                                                 *)
(***************************************************************************)
\* healthChecker: esClient() != nil, then GetClusterHealth and its status
healthChecker(ec, resp) ==
    IF ec # NilClient
    THEN IF resp.err # Nil THEN [msg |-> "Cluster is not healthy: ", err |-> resp.err]
         ELSE IF resp.status # "green"
              THEN [msg |-> "Cluster is " \o resp.status, err |-> "Cluster is " \o resp.status]
         ELSE [msg |-> "Cluster is healthy", err |-> Nil]
    ELSE [msg |-> "Couldn't check the cluster's health.", err |-> ErrNoConnectivity]

\* mappingsChecker looking at migrationCheck before it looks at migrationErr
mappingsChecker_CheckFirst(err, errRet, check, version, prog) ==
    IF ~check
    THEN LET msg == "Elasticsearch mappings migration to version " \o version
                        \o " is in progress (" \o prog \o ")"
         IN  [msg |-> msg, err |-> msg]
    ELSE IF err # Nil
    THEN [msg |-> "Elasticsearch mappings were not migrated successfully", err |-> errRet]
    ELSE [msg |-> "Elasticsearch mappings are at version " \o version, err |-> Nil]

\* mappingsChecker: (message, error) from the migration state as it reads it.
\* err is what the condition `service.migrationErr != nil` read, errRet what
\* the operand of the return statement below it read: the field is named
\* twice, and the two are one load or two as the compiler chooses.
mappingsChecker(err, errRet, check, version, prog) ==
    IF err # Nil
    THEN [msg |-> "Elasticsearch mappings were not migrated successfully", err |-> errRet]
    ELSE IF ~check
    THEN LET msg == "Elasticsearch mappings migration to version " \o version
                        \o " is in progress (" \o prog \o ")"
         IN  [msg |-> msg, err |-> msg]
    ELSE [msg |-> "Elasticsearch mappings are at version " \o version, err |-> Nil]

\* checkIndexAliases answering several indices with a fixed error that names
\* neither the alias nor the indices
ErrInvalidAlias == "ElasticSearch alias configuration is invalid for update"
checkIndexAliases_FixedError(resp, aliasName, version) ==
    IF resp.err # Nil
    THEN [requireUpdate |-> FALSE, current |-> "", required |-> "", err |-> resp.err]
    ELSE IF Len(resp.listed) = 0
    THEN [requireUpdate |-> TRUE, current |-> "",
          required |-> RequiredIndex(aliasName, version), err |-> Nil]
    ELSE IF Len(resp.listed) = 1
    THEN [requireUpdate |-> ~(resp.listed[1] = RequiredIndex(aliasName, version)),
          current |-> resp.listed[1],
          required |-> RequiredIndex(aliasName, version), err |-> Nil]
    ELSE [requireUpdate |-> FALSE, current |-> "", required |-> "",
          err |-> ErrInvalidAlias]

\* checkIndexAliases asking for an update when the one index is the required
\* one
checkIndexAliases_Unnegated(resp, aliasName, version) ==
    IF resp.err # Nil
    THEN [requireUpdate |-> FALSE, current |-> "", required |-> "", err |-> resp.err]
    ELSE IF Len(resp.listed) = 0
    THEN [requireUpdate |-> TRUE, current |-> "",
          required |-> RequiredIndex(aliasName, version), err |-> Nil]
    ELSE IF Len(resp.listed) = 1
    THEN [requireUpdate |-> resp.listed[1] = RequiredIndex(aliasName, version),
          current |-> resp.listed[1],
          required |-> RequiredIndex(aliasName, version), err |-> Nil]
    ELSE [requireUpdate |-> FALSE, current |-> "", required |-> "",
          err |-> ErrMultipleIndices(aliasName, resp.listed)]

\* checkIndexAliases: (requireUpdate, currentIndex, requiredIndex, err)
checkIndexAliases(resp, aliasName, version) ==
    IF resp.err # Nil
    THEN [requireUpdate |-> FALSE, current |-> "", required |-> "", err |-> resp.err]
    ELSE IF Len(resp.listed) = 0
    THEN [requireUpdate |-> TRUE, current |-> "",
          required |-> RequiredIndex(aliasName, version), err |-> Nil]
    ELSE IF Len(resp.listed) = 1
    THEN [requireUpdate |-> ~(resp.listed[1] = RequiredIndex(aliasName, version)),
          current |-> resp.listed[1],
          required |-> RequiredIndex(aliasName, version), err |-> Nil]
    ELSE [requireUpdate |-> FALSE, current |-> "", required |-> "",
          err |-> ErrMultipleIndices(aliasName, resp.listed)]

\* waitForReadOnly content with a write setting of any value
waitForReadOnlyIter_AnyValue(settingsErr, setting, errCount, maxErrs, indexName) ==
    IF settingsErr # Nil
    THEN [taskErrCount |-> errCount + 1,
          next |-> IF errCount + 1 = maxErrs THEN "return" ELSE "continue",
          err |-> IF errCount + 1 = maxErrs THEN settingsErr ELSE Nil]
    ELSE IF setting \in {NoBlocks, NoWrite}
    THEN [taskErrCount |-> errCount + 1,
          next |-> IF errCount + 1 = maxErrs THEN "return" ELSE "retry",
          err |-> IF errCount + 1 = maxErrs THEN ErrReadOnlyStalled(indexName) ELSE Nil]
    ELSE [taskErrCount |-> errCount, next |-> "return", err |-> Nil]

\* one iteration of the loop of waitForReadOnly, given the answer to
\* IndexGetSettings: what the iteration does next and the error it returns
waitForReadOnlyIter(settingsErr, setting, errCount, maxErrs, indexName) ==
    IF settingsErr # Nil
    THEN [taskErrCount |-> errCount + 1,
          next |-> IF errCount + 1 = maxErrs THEN "return" ELSE "continue",
          err |-> IF errCount + 1 = maxErrs THEN settingsErr ELSE Nil]
    ELSE IF setting \in {NoBlocks, NoWrite} \/ ~ParseBool(setting)
    THEN [taskErrCount |-> errCount + 1,
          next |-> IF errCount + 1 = maxErrs THEN "return" ELSE "retry",
          err |-> IF errCount + 1 = maxErrs THEN ErrReadOnlyStalled(indexName) ELSE Nil]
    ELSE [taskErrCount |-> errCount, next |-> "return", err |-> Nil]

\* isTaskComplete with "at most" in place of "equal"
isTaskComplete_AtMost(cnt, expected) ==
    [finished |-> (cnt.count <= expected), done |-> cnt.count, err |-> cnt.err]

\* isTaskComplete with "at least" in place of "equal"
isTaskComplete_AtLeast(cnt, expected) ==
    [finished |-> (cnt.count >= expected), done |-> cnt.count, err |-> cnt.err]

\* isTaskComplete: (finished, done, err) from the answer to the count request
isTaskComplete(cnt, expected) ==
    [finished |-> (cnt.count = expected), done |-> cnt.count, err |-> cnt.err]

\* history = append(history, done); if len(history) > 5 { history = history[1:] }
PushHistory(hist, done) ==
    IF Len(hist) + 1 > HistoryLen THEN Tail(Append(hist, done)) ELSE Append(hist, done)

\* waitForCompletion without the stall check
Stalled_Never(hist, done) == FALSE

\* the stall check made as soon as the window holds five values
Stalled_WhenFull(hist, done) ==
    Len(hist) + 1 >= HistoryLen /\ PushHistory(hist, done)[1] = done

\* the window overflowed and its oldest value equals the current one
Stalled(hist, done) ==
    Len(hist) + 1 > HistoryLen /\ PushHistory(hist, done)[1] = done

\* waitForCompletion emptying the window after a stall event
waitForCompletionIter_EmptyWindow(t, errCount, hist, maxErrs, indexName) ==
    LET c1 == IF t.err # Nil THEN errCount + 1 ELSE errCount IN
    IF t.err # Nil /\ c1 = maxErrs
    THEN [taskErrCount |-> c1, history |-> hist, next |-> "return", err |-> t.err]
    ELSE IF t.finished
    THEN [taskErrCount |-> c1, history |-> hist, next |-> "break", err |-> Nil]
    ELSE IF Stalled(hist, t.done)
    THEN IF c1 + 1 = maxErrs
         THEN [taskErrCount |-> c1 + 1, history |-> PushHistory(hist, t.done),
               next |-> "return", err |-> ErrReindexStalled(indexName)]
         ELSE [taskErrCount |-> c1 + 1, history |-> <<>>,
               next |-> "sleep", err |-> Nil]
    ELSE [taskErrCount |-> c1, history |-> PushHistory(hist, t.done),
          next |-> "sleep", err |-> Nil]

\* one iteration of the loop of waitForCompletion, given isTaskComplete's
\* result: the counters after it, what it does next and the error it returns
waitForCompletionIter(t, errCount, hist, maxErrs, indexName) ==
    LET c1 == IF t.err # Nil THEN errCount + 1 ELSE errCount IN
    IF t.err # Nil /\ c1 = maxErrs
    THEN [taskErrCount |-> c1, history |-> hist, next |-> "return", err |-> t.err]
    ELSE IF t.finished
    THEN [taskErrCount |-> c1, history |-> hist, next |-> "break", err |-> Nil]
    ELSE IF Stalled(hist, t.done)
    THEN IF c1 + 1 = maxErrs
         THEN [taskErrCount |-> c1 + 1, history |-> PushHistory(hist, t.done),
               next |-> "return", err |-> ErrReindexStalled(indexName)]
         ELSE [taskErrCount |-> c1 + 1, history |-> <<t.done>>,
               next |-> "sleep", err |-> Nil]
    ELSE [taskErrCount |-> c1, history |-> PushHistory(hist, t.done),
          next |-> "sleep", err |-> Nil]

\* es.progress as an iteration of waitForCompletion leaves it, the update
\* skipped when the count request failed
PollProgress_SkipOnError(t, expected) ==
    IF t.err # Nil THEN progress ELSE ProgressString(t.done, expected)

\* es.progress = fmt.Sprintf("%v / %v documents reindexed", done, completeCount)
PollProgress(t, expected) == ProgressString(t.done, expected)

\* updateAlias without the Remove of the old index
updateAliasActions_NoRemove(aliasName, aliasFilter, oldIndexName, newIndex) ==
    <<[op |-> "add", index |-> newIndex, alias |-> aliasName,
       filter |-> IF aliasFilter # "" THEN aliasFilter ELSE ""]>>

\* updateAlias with the two index names exchanged
updateAliasActions_Exchanged(aliasName, aliasFilter, oldIndexName, newIndex) ==
    <<[op |-> "remove", index |-> newIndex, alias |-> aliasName, filter |-> ""],
      [op |-> "add", index |-> oldIndexName, alias |-> aliasName,
       filter |-> IF aliasFilter # "" THEN aliasFilter ELSE ""]>>

\* updateAlias without the filter
updateAliasActions_NoFilter(aliasName, aliasFilter, oldIndexName, newIndex) ==
    (IF Len(oldIndexName) > 0
     THEN <<[op |-> "remove", index |-> oldIndexName, alias |-> aliasName, filter |-> ""]>>
     ELSE <<>>)
    \o <<[op |-> "add", index |-> newIndex, alias |-> aliasName, filter |-> ""]>>

\* updateAlias: the actions of the one alias request it sends
updateAliasActions(aliasName, aliasFilter, oldIndexName, newIndex) ==
    (IF Len(oldIndexName) > 0
     THEN <<[op |-> "remove", index |-> oldIndexName, alias |-> aliasName, filter |-> ""]>>
     ELSE <<>>)
    \o <<[op |-> "add", index |-> newIndex, alias |-> aliasName,
          filter |-> IF aliasFilter # "" THEN aliasFilter ELSE ""]>>

(***************************************************************************)
(* Control flow of MigrateIndex after each phase function has returned:    *)
(* the next position of the goroutine and, when MigrateIndex returns, the  *)
(* value it returns.                                                       *)
(***************************************************************************)
\* "return nil" where the code says "return err"
Return_Swallowed(e) == [pc |-> "returned", ret |-> Nil]

Goto(label) == [pc |-> label, ret |-> Nil]
Return(e) == [pc |-> "returned", ret |-> e]

\* MigrateIndex carrying on after a failed health gate
AfterHealthGate_Ignored(err) == Goto("checkIndexAliases")

AfterHealthGate(err) ==
    IF err # Nil THEN Return(err) ELSE Goto("checkIndexAliases")

\* MigrateIndex without the "index is up-to-date" return
AfterCheckIndexAliases_AlwaysUpdate(err, update) ==
    IF err # Nil THEN Return(err) ELSE Goto("createIndex")

AfterCheckIndexAliases(err, update) ==
    IF err # Nil THEN Return(err)
    ELSE IF ~update THEN Return(Nil)
    ELSE Goto("createIndex")

\* MigrateIndex entering the read-only phase whether or not an old index exists
AfterCreateIndex_AlwaysLock(err, current) ==
    IF err # Nil THEN Return(err) ELSE Goto("setReadOnly")

\* MigrateIndex taking "already exists" for a success and reusing the index
AfterCreateIndex_Reuse(err, current) ==
    IF err # Nil /\ ~Contains(err, "already exists") THEN Return(err)
    ELSE IF Len(current) > 0 THEN Goto("setReadOnly")
    ELSE Goto("updateAlias")

AfterCreateIndex(err, current) ==
    IF err # Nil THEN Return(err)
    ELSE IF Len(current) > 0 THEN Goto("setReadOnly")
    ELSE Goto("updateAlias")

\* MigrateIndex going from setReadOnly straight to reindex
AfterSetReadOnly_NoWait(err) ==
    IF err # Nil THEN Return(err) ELSE Goto("reindex")

AfterSetReadOnly(err) ==
    IF err # Nil THEN Return(err) ELSE Goto("waitForReadOnly")

AfterWaitForReadOnly(err) ==
    IF err # Nil THEN Return(err) ELSE Goto("reindex")

\* MigrateIndex polling for completion although reindex failed
AfterReindex_Ignored(err) == Goto("waitForCompletion")

AfterReindex(err) ==
    IF err # Nil THEN Return(err) ELSE Goto("waitForCompletion")

AfterWaitForCompletion(err) ==
    IF err # Nil THEN Return(err) ELSE Goto("updateAlias")

AfterUpdateAlias(err) ==
    IF err # Nil THEN Return(err) ELSE Return(Nil)

(***************************************************************************)
(* Initial states: the service as NewEsService builds it, in front of a    *)
(* cluster in which the alias is on none, one or several of the indices.   *)
(* The index of the version before the previous one, when it is still      *)
(* there, is one the alias was never taken off.                            *)
(***************************************************************************)
PhaseRank ==
    [NotStarted |-> 0, HealthGate |-> 1, AliasCheck |-> 2, Provisioning |-> 3,
     ReadOnlyLock |-> 4, Copying |-> 5, WaitCompletion |-> 6, Cutover |-> 7]

ReadKinds == {"clusterHealth", "aliases", "getSettings", "count"}
WriteKinds == {"createIndex", "putSettings", "reindex", "updateAliases"}

Init ==
    /\ indices \in SUBSET IndexNames
    /\ aliases \in [AliasNames -> SUBSET indices]
    /\ StaleIndexName \in indices => aliases[AliasName] = indices
    /\ \E n \in 0..MaxDocs :
         docs = [i \in IndexNames |-> IF i \in indices THEN 1..n ELSE {}]
    /\ mappings = [i \in IndexNames |-> IF i \in indices THEN OldMapping ELSE ""]
    /\ \E b \in {NoBlocks, NoWrite, "false"} :
         blocks = [i \in IndexNames |->
                     IF i \in aliases[AliasName] THEN b ELSE NoBlocks]
    /\ pending = {}
    /\ aliasFilters = [a \in AliasNames |-> ""]
    /\ task = NoTask
    /\ elasticClient = NilClient
    /\ indexVersion \in {"", NextVersion}
    /\ mappingFile \in {TestNewMappingFile, NoSuchFile}
    /\ aliasFilterFile \in {"", TestAliasFilterFile, NoSuchFile}
    /\ aliasForAllConcepts = ""
    /\ progress = "not started"
    /\ migrationCheck = FALSE
    /\ migrationErr = Nil
    /\ handlesLeft = MaxHandles
    /\ pc = "idle"
    /\ client = NilClient
    /\ requireUpdate = FALSE
    /\ currentIndexName = ""
    /\ newIndexName = ""
    /\ count = 0
    /\ completeCount = 0
    /\ taskErrCount = 0
    /\ history = <<>>
    /\ maxErrors = 0
    /\ ret = Nil
    /\ phase = "NotStarted"
    /\ issued = {}
    /\ aliasStart = aliases
    /\ alias0 = aliases
    /\ aliasReq = <<>>
    /\ opErr = Nil
    /\ lastPoll = NoPoll
    /\ faults = TRUE
    /\ mu = Unlocked
    /\ setter = NoSetter
    /\ checker = [h \in Checkers |-> NoChecker]
    /\ mcheck = NoMappingsCheck

(***************************************************************************)
(* The goroutine of NewEsService.                                          *)
(***************************************************************************)
\* for ec := range ch { es.setElasticClient(ec); ... es.MigrateIndex(...)
Receive(ec) ==
    /\ pc = "idle"
    /\ handlesLeft > 0
    /\ handlesLeft' = handlesLeft - 1
    /\ elasticClient' = ec
    /\ pc' = "MigrateIndex"
    /\ client' = NilClient
    /\ requireUpdate' = FALSE
    /\ currentIndexName' = ""
    /\ newIndexName' = ""
    /\ count' = 0
    /\ completeCount' = 0
    /\ taskErrCount' = 0
    /\ history' = <<>>
    /\ maxErrors' = 0
    /\ ret' = Nil
    /\ phase' = "NotStarted"
    /\ issued' = {}
    /\ aliasStart' = aliases
    /\ aliasReq' = <<>>
    /\ opErr' = Nil
    /\ lastPoll' = NoPoll
    /\ UNCHANGED <<clusterVars, configVars, lockVars, mcheck, stateVars>>

\* the goroutine storing the returned value only when it is an error
RecordErr_OnlyFailures ==
    /\ pc = "returned"
    /\ migrationErr' = IF ret # Nil THEN ret ELSE migrationErr
    /\ pc' = "recorded"
    /\ UNCHANGED <<clusterVars, configVars, lockVars, mcheck, progress, migrationCheck,
                   elasticClient, handlesLeft, localVars, ghostVars>>

\* es.migrationErr = <value MigrateIndex returned>
RecordErr ==
    /\ pc = "returned"
    /\ migrationErr' = ret
    /\ pc' = "recorded"
    /\ UNCHANGED <<clusterVars, configVars, lockVars, mcheck, progress, migrationCheck, elasticClient,
                   handlesLeft, localVars, ghostVars>>

\* the goroutine calling MigrateIndex again after a failure, without waiting
\* for the next handle
RecordCheck_Retry ==
    /\ pc = "recorded"
    /\ migrationCheck' = TRUE
    /\ pc' = IF migrationErr # Nil THEN "MigrateIndex" ELSE "idle"
    /\ UNCHANGED <<clusterVars, configVars, lockVars, mcheck, progress, migrationErr,
                   elasticClient, handlesLeft, localVars, ghostVars>>

\* es.migrationCheck = true, then back to the channel
RecordCheck ==
    /\ pc = "recorded"
    /\ migrationCheck' = TRUE
    /\ pc' = "idle"
    /\ UNCHANGED <<clusterVars, configVars, lockVars, mcheck, progress, migrationErr, elasticClient,
                   handlesLeft, localVars, ghostVars>>

(***************************************************************************)
(* MigrateIndex, phase by phase.                                           *)
(***************************************************************************)
\* the version check and the health gate
HealthGate ==
    /\ pc = "MigrateIndex"
    /\ phase' = "HealthGate"
    /\ IF Len(indexVersion) = 0
       THEN /\ pc' = Return(ErrNoIndexVersion).pc
            /\ ret' = Return(ErrNoIndexVersion).ret
            /\ opErr' = ErrNoIndexVersion
            /\ UNCHANGED <<issued, progress, client>>
       ELSE \E resp \in HealthResponses :
              LET r == healthChecker(elasticClient, resp)
                  n == AfterHealthGate(r.err)
              IN  /\ issued' = IF elasticClient # NilClient
                               THEN issued \cup {"clusterHealth"} ELSE issued
                  /\ opErr' = r.err
                  /\ pc' = n.pc
                  /\ ret' = n.ret
                  /\ progress' = IF r.err = Nil THEN "starting" ELSE progress
                  /\ client' = IF r.err = Nil THEN elasticClient ELSE client
    /\ UNCHANGED <<clusterVars, configVars, lockVars, mcheck, migrationCheck, migrationErr, elasticClient,
                   handlesLeft, requireUpdate, currentIndexName, newIndexName, count,
                   completeCount, taskErrCount, history, maxErrors, aliasStart, aliasReq, lastPoll>>

\* requireUpdate, currentIndexName, newIndexName, err := es.checkIndexAliases(...)
CheckIndexAliases ==
    /\ pc = "checkIndexAliases"
    /\ phase' = "AliasCheck"
    /\ issued' = issued \cup {"aliases"}
    /\ \E resp \in AliasesResponses(AliasName) :
         LET r == checkIndexAliases(resp, AliasName, indexVersion)
             n == AfterCheckIndexAliases(r.err, r.requireUpdate)
         IN  /\ requireUpdate' = r.requireUpdate
             /\ currentIndexName' = r.current
             /\ newIndexName' = r.required
             /\ opErr' = r.err
             /\ pc' = n.pc
             /\ ret' = n.ret
    /\ UNCHANGED <<clusterVars, configVars, lockVars, mcheck, stateVars, elasticClient, handlesLeft, client,
                   count, completeCount, taskErrCount, history, maxErrors,
                   aliasStart, aliasReq, lastPoll>>

\* ioutil.ReadFile(mappingFile), then es.createIndex(...)
CreateIndex ==
    /\ pc = "createIndex"
    /\ phase' = "Provisioning"
    /\ LET f == ReadFile(mappingFile) IN
       IF f.err # Nil
       THEN /\ pc' = Return(f.err).pc
            /\ ret' = Return(f.err).ret
            /\ opErr' = f.err
            /\ UNCHANGED <<issued, indices, docs, mappings, blocks>>
       ELSE \E ok \in BOOLEAN :
              LET e == EsCreateIndex(ok, newIndexName)
                  n == AfterCreateIndex(e, currentIndexName)
              IN  /\ issued' = issued \cup {"createIndex"}
                  /\ opErr' = e
                  /\ pc' = n.pc
                  /\ ret' = n.ret
                  /\ indices' = IF e = Nil THEN indices \cup {newIndexName} ELSE indices
                  /\ docs' = IF e = Nil THEN [docs EXCEPT ![newIndexName] = {}] ELSE docs
                  /\ mappings' = IF e = Nil THEN [mappings EXCEPT ![newIndexName] = f.data]
                                 ELSE mappings
                  /\ blocks' = IF e = Nil THEN [blocks EXCEPT ![newIndexName] = NoBlocks]
                               ELSE blocks
    /\ UNCHANGED <<pending, aliases, aliasFilters, task, configVars, lockVars, mcheck, stateVars,
                   elasticClient, handlesLeft, client, requireUpdate, currentIndexName,
                   newIndexName, count, completeCount, taskErrCount, history, maxErrors,
                   aliasStart, aliasReq, lastPoll>>

\* es.setReadOnly(ctx, client, currentIndexName)
SetReadOnly ==
    /\ pc = "setReadOnly"
    /\ phase' = "ReadOnlyLock"
    /\ issued' = issued \cup {"putSettings"}
    /\ \E o \in PutSettingsOutcomes :
         LET e == EsPutSettings(o, currentIndexName)
             n == AfterSetReadOnly(e)
         IN  /\ opErr' = e
             /\ pc' = n.pc
             /\ ret' = n.ret
             /\ blocks' = BlocksAfterPut(o, currentIndexName)
             /\ pending' = PendingAfterPut(o, currentIndexName)
             \* waitForReadOnly(..., math.MaxInt32) starts with taskErrCount := 0
             /\ taskErrCount' = IF e = Nil THEN 0 ELSE taskErrCount
             /\ maxErrors' = IF e = Nil THEN MaxInt32 ELSE maxErrors
    /\ UNCHANGED <<indices, docs, mappings, aliases, aliasFilters, task, configVars, lockVars, mcheck,
                   stateVars, elasticClient, handlesLeft, client, requireUpdate,
                   currentIndexName, newIndexName, count, completeCount, history,
                   aliasStart, aliasReq, lastPoll>>

\* the answers a request of a polling loop may get: it may fail below the
\* cluster unless the environment is one without faults
PollAnswers == IF faults THEN BOOLEAN ELSE {TRUE}

\* the model follows a polling loop while its error counter is at most
\* MaxTaskErrs or within MaxTaskErrs of the loop's budget
WithinModel(errCount, maxErrs) ==
    errCount <= MaxTaskErrs \/ maxErrs - errCount <= MaxTaskErrs

\* one iteration of waitForReadOnly up to its retry: IndexGetSettings and
\* the decision taken on the answer
WaitForReadOnly ==
    /\ pc = "waitForReadOnly"
    /\ phase' = "ReadOnlyLock"
    /\ issued' = issued \cup {"getSettings"}
    /\ \E ok \in PollAnswers :
         LET settingsErr == IF ~ok THEN ErrTransport
                            ELSE IF currentIndexName \notin indices
                                 THEN ErrNoSuchIndex(currentIndexName)
                            ELSE Nil
             r == waitForReadOnlyIter(settingsErr, blocks[currentIndexName],
                                      taskErrCount, maxErrors, currentIndexName)
             n == IF r.next = "return" THEN AfterWaitForReadOnly(r.err)
                  ELSE IF r.next = "continue" THEN Goto("waitForReadOnly")
                  ELSE Goto("waitForReadOnlyRetry")
         IN  /\ WithinModel(r.taskErrCount, maxErrors)
             /\ lastPoll' = [n |-> IF lastPoll.n < MaxPollNo THEN lastPoll.n + 1
                                    ELSE lastPoll.n,
                             finished |-> (r.next = "return" /\ r.err = Nil),
                             done |-> 0, err |-> settingsErr]
             /\ taskErrCount' = r.taskErrCount
             /\ opErr' = IF r.next = "return" THEN r.err ELSE opErr
             /\ pc' = n.pc
             /\ ret' = n.ret
    /\ UNCHANGED <<clusterVars, configVars, lockVars, mcheck, stateVars, elasticClient, handlesLeft, client,
                   requireUpdate, currentIndexName, newIndexName, count, completeCount,
                   history, maxErrors, aliasStart, aliasReq>>

\* the retry of waitForReadOnly: es.setReadOnly(...) with its error dropped,
\* then time.Sleep(es.pollReindexInterval)
WaitForReadOnlyRetry ==
    /\ pc = "waitForReadOnlyRetry"
    /\ phase' = "ReadOnlyLock"
    /\ issued' = issued \cup {"putSettings"}
    /\ \E o \in PutSettingsOutcomes :
         /\ blocks' = BlocksAfterPut(o, currentIndexName)
         /\ pending' = PendingAfterPut(o, currentIndexName)
    /\ pc' = "waitForReadOnly"
    /\ UNCHANGED <<indices, docs, mappings, aliases, aliasFilters, task, configVars, lockVars, mcheck,
                   stateVars, elasticClient, handlesLeft, localVars, aliasStart, aliasReq, lastPoll,
                   opErr>>

\* the positions of the goroutine inside reindex: before the count of the
\* destination, before the count of the source, before the reindex request
ReindexAt == {"reindex", "reindexCountFrom", "reindexStart"}

\* reindex starting the copy without having counted the destination
reindex_NoDestCount(at, ok, fromIndex, toIndex, cnt) ==
    IF at = "reindex"
    THEN [next |-> "reindexCountFrom", count |-> cnt, err |-> Nil,
          started |-> FALSE, kind |-> "none"]
    ELSE IF at = "reindexCountFrom"
    THEN LET c == EsCount(ok, fromIndex) IN
         [next |-> IF c.err # Nil THEN "return" ELSE "reindexStart",
          count |-> IF c.err # Nil THEN 0 ELSE c.count, err |-> c.err,
          started |-> FALSE, kind |-> "count"]
    ELSE [next |-> "return", count |-> IF ok THEN cnt ELSE 0,
          err |-> IF ok THEN Nil ELSE ErrTransport, started |-> ok, kind |-> "reindex"]

\* reindex returning the count of the destination, which it read first
reindex_DestCount(at, ok, fromIndex, toIndex, cnt) ==
    IF at = "reindex"
    THEN LET c == EsCount(ok, toIndex) IN
         [next |-> IF c.err # Nil THEN "return" ELSE "reindexCountFrom",
          count |-> IF c.err # Nil THEN 0 ELSE c.count, err |-> c.err,
          started |-> FALSE, kind |-> "count"]
    ELSE IF at = "reindexCountFrom"
    THEN LET c == EsCount(ok, fromIndex) IN
         [next |-> IF c.err # Nil THEN "return" ELSE "reindexStart",
          count |-> IF c.err # Nil THEN 0 ELSE cnt, err |-> c.err,
          started |-> FALSE, kind |-> "count"]
    ELSE [next |-> "return", count |-> IF ok THEN cnt ELSE 0,
          err |-> IF ok THEN Nil ELSE ErrTransport, started |-> ok, kind |-> "reindex"]

\* reindex, one request at a time: count(toIndex) (354), count(fromIndex)
\* (360), the reindex request with WaitForCompletion(false) (366).  ok tells
\* whether the request was answered, cnt is the local count; next is the
\* position after the request ("return": reindex returns count, err), kind
\* the request sent, started whether a copy was accepted.
reindex(at, ok, fromIndex, toIndex, cnt) ==
    IF at = "reindex"
    THEN LET c == EsCount(ok, toIndex) IN
         [next |-> IF c.err # Nil THEN "return" ELSE "reindexCountFrom",
          count |-> IF c.err # Nil THEN 0 ELSE c.count, err |-> c.err,
          started |-> FALSE, kind |-> "count"]
    ELSE IF at = "reindexCountFrom"
    THEN LET c == EsCount(ok, fromIndex) IN
         [next |-> IF c.err # Nil THEN "return" ELSE "reindexStart",
          count |-> IF c.err # Nil THEN 0 ELSE c.count, err |-> c.err,
          started |-> FALSE, kind |-> "count"]
    ELSE [next |-> "return", count |-> IF ok THEN cnt ELSE 0,
          err |-> IF ok THEN Nil ELSE ErrTransport, started |-> ok, kind |-> "reindex"]

\* completeCount, err := es.reindex(ctx, client, currentIndexName, newIndexName):
\* one step for each of its requests, the last one with the return
Reindex ==
    /\ pc \in ReindexAt
    /\ phase' = "Copying"
    /\ \E ok \in BOOLEAN :
         LET r == reindex(pc, ok, currentIndexName, newIndexName, count)
             back == r.next = "return"
             n == IF back THEN AfterReindex(r.err) ELSE Goto(r.next)
             go == back /\ r.err = Nil
         IN  /\ issued' = issued \cup (IF r.kind = "none" THEN {} ELSE {r.kind})
             /\ count' = r.count
             /\ completeCount' = IF back THEN r.count ELSE completeCount
             /\ opErr' = r.err
             /\ pc' = n.pc
             /\ ret' = n.ret
             /\ task' = IF r.started
                        THEN [src |-> currentIndexName, dest |-> newIndexName,
                              todo |-> docs[currentIndexName]]
                        ELSE task
             \* waitForCompletion(..., math.MaxInt32) starts with an empty window
             /\ taskErrCount' = IF go THEN 0 ELSE taskErrCount
             /\ history' = IF go THEN <<>> ELSE history
             /\ maxErrors' = IF go THEN MaxInt32 ELSE maxErrors
             /\ lastPoll' = IF go THEN NoPoll ELSE lastPoll
    /\ UNCHANGED <<indices, docs, mappings, blocks, pending, aliases, aliasFilters,
                   configVars, lockVars, mcheck, stateVars, elasticClient, handlesLeft, client,
                   requireUpdate, currentIndexName, newIndexName, aliasStart, aliasReq>>

\* one iteration of waitForCompletion: isTaskComplete, the progress string,
\* the error budget, the stall window, and the sleep
WaitForCompletion ==
    /\ pc = "waitForCompletion"
    /\ phase' = "WaitCompletion"
    /\ issued' = issued \cup {"count"}
    /\ \E ok \in PollAnswers :
         LET t == isTaskComplete(EsCount(ok, newIndexName), completeCount)
             r == waitForCompletionIter(t, taskErrCount, history, maxErrors, newIndexName)
             n == IF r.next = "sleep" THEN Goto("waitForCompletion")
                  ELSE AfterWaitForCompletion(r.err)
         IN  /\ WithinModel(r.taskErrCount, maxErrors)
             /\ lastPoll' = [n |-> IF lastPoll.n < MaxPollNo THEN lastPoll.n + 1
                                    ELSE lastPoll.n,
                             finished |-> t.finished, done |-> t.done, err |-> t.err]
             /\ progress' = PollProgress(t, completeCount)
             /\ taskErrCount' = r.taskErrCount
             /\ history' = r.history
             /\ opErr' = IF r.next = "sleep" THEN opErr ELSE r.err
             /\ pc' = n.pc
             /\ ret' = n.ret
    /\ UNCHANGED <<clusterVars, configVars, lockVars, mcheck, migrationCheck, migrationErr, elasticClient,
                   handlesLeft, client, requireUpdate, currentIndexName, newIndexName,
                   count, completeCount, maxErrors, aliasStart, aliasReq>>

\* the alias filter read with its error dropped
readAliasFilter_ErrorDropped(path) ==
    [err |-> Nil, data |-> IF Len(path) > 0 THEN ReadFile(path).data ELSE ""]

\* if len(aliasFilterFile) > 0 { aliasFilterBytes, err := ioutil.ReadFile(...) }
readAliasFilter(path) ==
    IF Len(path) > 0 THEN ReadFile(path) ELSE [err |-> Nil, data |-> ""]

\* the optional ioutil.ReadFile(aliasFilterFile), then es.updateAlias(...);
\* thenPc is where the run goes on after a request that succeeded, "" when
\* MigrateIndex returns its result
UpdateAliasStep(thenPc) ==
    /\ pc = "updateAlias"
    /\ phase' = "Cutover"
    /\ LET f == readAliasFilter(aliasFilterFile)
       IN
       IF f.err # Nil
       THEN /\ pc' = Return(f.err).pc
            /\ ret' = Return(f.err).ret
            /\ opErr' = f.err
            /\ UNCHANGED <<issued, aliases, aliasFilters, aliasReq>>
       ELSE \E ok \in BOOLEAN :
              LET acts == updateAliasActions(AliasName, f.data, currentIndexName, newIndexName)
                  e == EsUpdateAliases(ok, acts)
                  n == IF e = Nil /\ thenPc # "" THEN Goto(thenPc) ELSE AfterUpdateAlias(e)
              IN  /\ issued' = issued \cup {"updateAliases"}
                  /\ aliasReq' = acts
                  /\ opErr' = e
                  /\ pc' = n.pc
                  /\ ret' = n.ret
                  /\ aliases' = updateAliasEffect(ok, acts, aliases)
                  /\ aliasFilters' = IF e = Nil THEN FiltersAfter(acts, aliasFilters)
                                     ELSE aliasFilters
    /\ UNCHANGED <<indices, docs, mappings, blocks, pending, task, configVars, lockVars, mcheck, stateVars,
                   elasticClient, handlesLeft, client, requireUpdate, currentIndexName,
                   newIndexName, count, completeCount, taskErrCount, history, maxErrors,
                   aliasStart, lastPoll>>

UpdateAlias == UpdateAliasStep("")

\* MigrateIndex of the version that has a second alias: after the alias
\* request of the first has succeeded it goes on to the second, if one is
\* configured
AfterPrimaryAlias ==
    IF aliasForAllConcepts # "" THEN "updateAliasForAllConcepts" ELSE ""

UpdateAliasFirst == UpdateAliasStep(AfterPrimaryAlias)

\* updateAlias for the second alias: the same request without a filter; the
\* removal from the old index changes nothing when the alias is not on it
UpdateAliasForAllConcepts ==
    /\ pc = "updateAliasForAllConcepts"
    /\ phase' = "Cutover"
    /\ \E ok \in BOOLEAN :
         LET acts == updateAliasActions(aliasForAllConcepts, "", currentIndexName,
                                        newIndexName)
             e == EsUpdateAliases(ok, acts)
             n == AfterUpdateAlias(e)
         IN  /\ issued' = issued \cup {"updateAliases"}
             /\ opErr' = e
             /\ pc' = n.pc
             /\ ret' = n.ret
             /\ aliases' = updateAliasEffect(ok, acts, aliases)
             /\ aliasFilters' = IF e = Nil THEN FiltersAfter(acts, aliasFilters)
                                ELSE aliasFilters
    /\ UNCHANGED <<indices, docs, mappings, blocks, pending, task, configVars, lockVars, mcheck, stateVars,
                   elasticClient, handlesLeft, client, requireUpdate, currentIndexName,
                   newIndexName, count, completeCount, taskErrCount, history, maxErrors,
                   aliasStart, aliasReq, lastPoll>>

(***************************************************************************)
(* The cluster and its other clients.                                      *)
(***************************************************************************)
\* a client indexes one more document into the index it knows under the
\* alias (the one index the alias was on initially); the cluster rejects the
\* request when the index's write block is in force
WriteBlocked(i) == ParseBool(blocks[i])
ClientWrite(i) ==
    /\ i \in indices
    /\ alias0[AliasName] = {i}
    /\ ~WriteBlocked(i)
    /\ \E d \in Docs :
         /\ d \notin docs[i]
         /\ \A x \in Docs : x < d => x \in docs[i]
         /\ docs' = [docs EXCEPT ![i] = @ \cup {d}]
    /\ UNCHANGED <<indices, mappings, blocks, pending, aliases, aliasFilters, task,
                   configVars, lockVars, mcheck, stateVars, elasticClient, handlesLeft, pc, localVars,
                   ghostVars>>

\* an accepted settings update becomes visible
ApplyPending(i) ==
    /\ i \in pending
    /\ blocks' = [blocks EXCEPT ![i] = "true"]
    /\ pending' = pending \ {i}
    /\ UNCHANGED <<indices, docs, mappings, aliases, aliasFilters, task, configVars, lockVars, mcheck,
                   stateVars, elasticClient, handlesLeft, pc, localVars, ghostVars>>

\* the reindex task copies one more document of its snapshot
CopyStep ==
    /\ task.todo # {}
    /\ \E d \in task.todo :
         /\ \A x \in task.todo : d <= x
         /\ docs' = [docs EXCEPT ![task.dest] = @ \cup {d}]
         /\ task' = [task EXCEPT !.todo = @ \ {d}]
    /\ UNCHANGED <<indices, mappings, blocks, pending, aliases, aliasFilters,
                   configVars, lockVars, mcheck, stateVars, elasticClient, handlesLeft, pc, localVars,
                   ghostVars>>

Next ==
    \/ \E ec \in Clients : Receive(ec)
    \/ HealthGate
    \/ CheckIndexAliases
    \/ CreateIndex
    \/ SetReadOnly
    \/ WaitForReadOnly
    \/ WaitForReadOnlyRetry
    \/ Reindex
    \/ WaitForCompletion
    \/ UpdateAlias
    \/ RecordErr
    \/ RecordCheck
    \/ \E i \in IndexNames : ClientWrite(i)
    \/ \E i \in IndexNames : ApplyPending(i)
    \/ CopyStep

Spec == Init /\ [][Next]_vars

TypeOK ==
    /\ indices \subseteq IndexNames
    /\ \A i \in IndexNames : docs[i] \subseteq Docs /\ blocks[i] \in BlockStates
    /\ pending \subseteq indices
    /\ \A a \in AliasNames : aliases[a] \subseteq IndexNames
    /\ elasticClient \in Clients
    /\ migrationCheck \in BOOLEAN
    /\ handlesLeft \in 0..MaxHandles
    /\ taskErrCount \in 0..MaxTaskErrs
    /\ Len(history) <= HistoryLen
    /\ phase \in DOMAIN PhaseRank
    /\ issued \subseteq ReadKinds \cup WriteKinds

(***************************************************************************)
(* Properties.                                                             *)
(***************************************************************************)
RequiredIndexName == RequiredIndex(AliasName, indexVersion)
Resolved == aliases[AliasName]
NonBootstrapRun == Len(currentIndexName) > 0

\* C1: when the alias starts on exactly one index, it is on exactly one
\* index in every state, and that index is the initial one or the required
\* one: never on no index, never on both.
C1_AliasOnExactlyOne ==
    Cardinality(alias0[AliasName]) = 1 =>
        /\ Cardinality(Resolved) = 1
        /\ Resolved \subseteq alias0[AliasName] \cup {RequiredIndexName}

\* the alias request of a migration from the old index has succeeded
C1_Witness ==
    /\ alias0[AliasName] = {OldIndexName}
    /\ pc = "returned"
    /\ ret = Nil
    /\ Len(aliasReq) = 2
    /\ Resolved = {NewIndexName}

\* C2: in a non-bootstrap run the alias request is reached only with the
\* destination holding as many documents as the expected count, which is the
\* source's count; and whenever the alias has moved from the old index to the
\* index the run created, that index holds as many documents as the source.
C2_NeverHalfPopulated ==
    /\ (pc = "updateAlias" /\ NonBootstrapRun) =>
          /\ Cardinality(docs[newIndexName]) = completeCount
          /\ completeCount = Cardinality(docs[currentIndexName])
    /\ \A src \in IndexNames \ {NewIndexName} :
          (alias0[AliasName] = {src} /\ Resolved = {NewIndexName}) =>
              Cardinality(docs[NewIndexName]) = Cardinality(docs[src])

\* the alias is on the new index, which holds every document of a source
\* that was copied document by document
C2_Witness ==
    /\ alias0[AliasName] = {OldIndexName}
    /\ Resolved = {NewIndexName}
    /\ task.dest = NewIndexName
    /\ Cardinality(docs[NewIndexName]) = MaxDocs

\* C3: the reindex task exists only while the source's write block is in
\* force, the run is past waitForReadOnly only with the block in force, from
\* then on no client write to the source is accepted, and the source's
\* documents do not change.
CopyStarted == task # NoTask
PastReadOnlyGate == pc \in ReindexAt \cup {"waitForCompletion"}
C3_SourceFrozen ==
    /\ [](CopyStarted => (WriteBlocked(task.src) /\ ~ENABLED ClientWrite(task.src)))
    /\ [](PastReadOnlyGate => WriteBlocked(currentIndexName))
    /\ [][/\ CopyStarted => docs'[task.src] = docs[task.src]
          /\ PastReadOnlyGate => docs'[currentIndexName] = docs[currentIndexName]
         ]_vars

\* the copy runs from a source that could still take a document if it were
\* writable
C3_Witness ==
    /\ CopyStarted
    /\ pc = "waitForCompletion"
    /\ task.src = OldIndexName
    /\ docs[OldIndexName] # Docs
    /\ docs[OldIndexName] # {}

\* a step of MigrateIndex
OrchestratorStep ==
    \/ HealthGate
    \/ CheckIndexAliases
    \/ CreateIndex
    \/ SetReadOnly
    \/ WaitForReadOnly
    \/ WaitForReadOnlyRetry
    \/ Reindex
    \/ WaitForCompletion
    \/ UpdateAlias

PhaseSucc ==
    [NotStarted |-> {"HealthGate"},
     HealthGate |-> {"AliasCheck"},
     AliasCheck |-> {"Provisioning"},
     Provisioning |-> {"ReadOnlyLock", "Cutover"},
     ReadOnlyLock |-> {"ReadOnlyLock", "Copying"},
     Copying |-> {"Copying", "WaitCompletion"},
     WaitCompletion |-> {"WaitCompletion", "Cutover"},
     Cutover |-> {}]

\* C4: within a run every step of MigrateIndex is in the phase of the step
\* before it (a polling loop, the three requests of reindex) or in a later phase, in the order health gate,
\* alias check, createIndex, setReadOnly/waitForReadOnly, reindex,
\* waitForCompletion, updateAlias; the read-only and copy phases are skipped
\* only by a bootstrap run; and once a phase has returned an error the run
\* takes no further step.
C4_PhaseOrder ==
    [][/\ OrchestratorStep =>
            /\ phase' \in PhaseSucc[phase]
            /\ PhaseRank[phase'] >= PhaseRank[phase]
            /\ (phase = "Provisioning" /\ phase' = "Cutover") => ~NonBootstrapRun
            /\ opErr = Nil
       /\ phase' # phase => (OrchestratorStep \/ (pc = "idle" /\ phase' = "NotStarted"))
      ]_vars

\* a run went through every phase and issued every kind of request
C4_Witness ==
    /\ pc = "returned"
    /\ ret = Nil
    /\ phase = "Cutover"
    /\ issued = ReadKinds \cup WriteKinds

\* C5: the step of the health gate returns ErrNoIndexVersion when no version
\* is configured, the connectivity error when no client handle is held, and
\* the status error when the cluster is yellow or red; a run that returns from
\* the health gate returns an error, has issued no mutating request, and has
\* left indices, write blocks, the copy task and the aliases as they were.
NotGreenErrs == {"Cluster is yellow", "Cluster is red"}
C5_HealthGateNoSideEffect ==
    /\ [][(pc = "MigrateIndex" /\ pc' # pc) =>
            /\ Len(indexVersion) = 0 => ret' = ErrNoIndexVersion
            /\ (Len(indexVersion) > 0 /\ elasticClient = NilClient) =>
                    ret' = ErrNoConnectivity
            /\ opErr' \in NotGreenErrs => ret' = opErr'
            /\ ret' # Nil =>
                    /\ pc' = "returned"
                    /\ issued' \cap WriteKinds = {}
                    /\ UNCHANGED clusterVars
            /\ ret' = Nil =>
                    /\ Len(indexVersion) > 0
                    /\ elasticClient # NilClient
                    /\ opErr' = Nil
          ]_vars
    /\ []((pc \in {"returned", "recorded"} /\ phase = "HealthGate") =>
            /\ ret # Nil
            /\ issued \cap WriteKinds = {}
            /\ aliases = aliasStart)

\* a run against a yellow cluster has returned from the health gate with the
\* alias still on the old index
C5_Witness ==
    /\ pc = "returned"
    /\ phase = "HealthGate"
    /\ ret = "Cluster is yellow"
    /\ Resolved = {OldIndexName}
    /\ indices = {OldIndexName}

\* C6: when checkIndexAliases finds the alias on exactly the required index,
\* MigrateIndex returns nil at once; a run that starts with the alias on the
\* required index issues no mutating request, and indices, mappings, write
\* blocks, the copy task, aliases and filters stay as they are, and documents
\* change only by the writes of other clients.
UpToDateRun == aliasStart[AliasName] = {RequiredIndexName}
C6_Idempotent ==
    /\ [](UpToDateRun => (issued \cap WriteKinds = {} /\ Resolved = {RequiredIndexName}))
    /\ [][(pc = "checkIndexAliases" /\ pc' # pc /\ opErr' = Nil
              /\ Resolved = {RequiredIndexName}) =>
            /\ pc' = "returned"
            /\ ret' = Nil
            /\ ~requireUpdate'
            /\ issued' \cap WriteKinds = {}
            /\ UNCHANGED clusterVars
          ]_vars
    /\ [][UpToDateRun =>
            /\ UNCHANGED <<indices, mappings, blocks, pending, task, aliases, aliasFilters>>
            /\ docs' # docs => \E i \in IndexNames : ClientWrite(i)
          ]_vars

\* the second run after a migration that moved the alias finds the index up
\* to date
C6_Witness ==
    /\ alias0[AliasName] = {OldIndexName}
    /\ Resolved = {NewIndexName}
    /\ UpToDateRun
    /\ handlesLeft = MaxHandles - 2
    /\ pc = "returned"
    /\ phase = "AliasCheck"
    /\ ret = Nil

\* C7: a run that starts with the alias on no index never issues a settings
\* write, a settings read, a count or a reindex, never enters the read-only or
\* copy phases, sends an alias request that consists of one add of the alias
\* to the required index, and when it returns nil it has created the required
\* index and the alias is on exactly that index.
BootstrapRun == aliasStart[AliasName] = {}
C7_Bootstrap ==
    BootstrapRun =>
        /\ issued \cap {"putSettings", "getSettings", "count", "reindex"} = {}
        /\ phase \notin {"ReadOnlyLock", "Copying", "WaitCompletion"}
        /\ aliasReq # <<>> =>
              /\ Len(aliasReq) = 1
              /\ aliasReq[1].op = "add"
              /\ aliasReq[1].index = RequiredIndexName
              /\ aliasReq[1].alias = AliasName
        /\ (pc = "returned" /\ ret = Nil) =>
              /\ {"createIndex", "updateAliases"} \subseteq issued
              /\ RequiredIndexName \in indices
              /\ Resolved = {RequiredIndexName}

\* a bootstrap run has returned nil with the alias on the new index
C7_Witness ==
    /\ alias0[AliasName] = {}
    /\ BootstrapRun
    /\ pc = "returned"
    /\ ret = Nil
    /\ phase = "Cutover"
    /\ Resolved = {NewIndexName}

\* C8: when the alias request is answered with two or more indices,
\* checkIndexAliases returns requireUpdate = false, empty index names and an
\* error that names the alias and every index; MigrateIndex returns that
\* error; and a run that starts with the alias on several indices issues no
\* mutating request and leaves the aliases as they are.
C8_InconsistentAlias ==
    /\ [](Cardinality(aliasStart[AliasName]) >= 2 =>
            (issued \cap WriteKinds = {} /\ aliases = aliasStart))
    /\ [][(pc = "checkIndexAliases" /\ pc' # pc /\ Cardinality(Resolved) >= 2
              /\ opErr' # ErrTransport) =>
            /\ ~requireUpdate'
            /\ currentIndexName' = ""
            /\ newIndexName' = ""
            /\ Contains(opErr', "alias " \o AliasName \o " points to multiple indices")
            /\ \A i \in Resolved : Contains(opErr', i)
            /\ pc' = "returned"
            /\ ret' = opErr'
            /\ UNCHANGED clusterVars
          ]_vars

\* MigrateIndex has returned the error that names all three indices of the
\* alias
C8_Witness ==
    /\ pc = "returned"
    /\ phase = "AliasCheck"
    /\ Resolved = IndexNames
    /\ \A i \in IndexNames : Contains(ret, i)
    /\ Contains(ret, "points to multiple indices")

\* C9: when the create request for an index that exists is answered, the
\* answer is the "already exists" error, MigrateIndex returns it, and the
\* cluster (the index, its mapping and documents included) is unchanged; a run
\* that returns from provisioning returns an error and has issued no settings
\* write, no reindex and no alias request.
AfterProvisioningKinds == {"putSettings", "getSettings", "count", "reindex", "updateAliases"}
C9_AlreadyExists ==
    /\ [][(pc = "createIndex" /\ pc' # pc /\ newIndexName \in indices
              /\ "createIndex" \in issued' /\ opErr' # ErrTransport) =>
            /\ opErr' = ErrAlreadyExists(newIndexName)
            /\ Contains(opErr', "already exists")
            /\ pc' = "returned"
            /\ ret' = opErr'
            /\ UNCHANGED clusterVars
          ]_vars
    /\ []((pc \in {"returned", "recorded"} /\ phase = "Provisioning") =>
            /\ ret # Nil
            /\ issued \cap AfterProvisioningKinds = {}
            /\ aliases = aliasStart)

\* a run was refused the creation of the new index, which existed with
\* documents, and the alias is still on the old index
C9_Witness ==
    /\ pc = "returned"
    /\ phase = "Provisioning"
    /\ ret = ErrAlreadyExists(NewIndexName)
    /\ Resolved = {OldIndexName}
    /\ docs[NewIndexName] # {}

\* C10: MigrateIndex returns the error of the phase that failed, the
\* goroutine stores the returned value in migrationErr, the failing step
\* changes nothing in the cluster, a failed run leaves the aliases as they
\* were when it started, and no step ever removes an index or a document.
C10_FailureNoRollback ==
    /\ []((pc = "returned" /\ opErr # Nil) => ret = opErr)
    /\ []((pc = "returned" /\ ret # Nil) => opErr = ret)
    /\ []((pc = "recorded" \/ (pc = "idle" /\ handlesLeft < MaxHandles)) =>
            migrationErr = ret)
    /\ []((pc \in {"returned", "recorded"} /\ ret # Nil) => aliases = aliasStart)
    /\ [][(OrchestratorStep /\ opErr' # Nil) =>
            (pc' = "returned" /\ UNCHANGED clusterVars)]_vars
    /\ [][/\ indices \subseteq indices'
          /\ \A i \in IndexNames : docs[i] \subseteq docs'[i]
          /\ (pc \in {"returned", "recorded"} /\ ret # Nil) => aliases' = aliases
         ]_vars

\* the alias request failed after the copy: the error is stored, the new
\* index and its documents are there, the alias is on the old index
C10_Witness ==
    /\ pc = "recorded"
    /\ phase = "Cutover"
    /\ migrationErr = ErrTransport
    /\ NewIndexName \in indices
    /\ docs[NewIndexName] = Docs
    /\ Resolved = {OldIndexName}

(***************************************************************************)
(* The polling loops on their own: a call of waitForReadOnly or of         *)
(* waitForCompletion with an error budget, from its first iteration, or    *)
(* the call MigrateIndex makes (budget math.MaxInt32) at the point where   *)
(* the counter is within MaxTaskErrs of the budget.  After the loop the    *)
(* run is followed to the recording of its outcome, or up to reindex.      *)
(***************************************************************************)
LoopPcs == {"waitForReadOnly", "waitForReadOnlyRetry", "waitForCompletion"}

\* the error counter and budget of the call: a fresh call with a small
\* budget, or MigrateIndex's call after enough failures
PollBudgets ==
    {[maxErrors |-> b, taskErrCount |-> 0, fresh |-> TRUE] : b \in 1..MaxTaskErrs}
        \cup {[maxErrors |-> MaxInt32, taskErrCount |-> MaxInt32 - r, fresh |-> FALSE] :
                 r \in 1..MaxTaskErrs}

PollInitFor(filterFile) ==
    /\ indices = {OldIndexName, NewIndexName}
    /\ aliases = [a \in AliasNames |-> {OldIndexName}]
    /\ aliasFilters = [a \in AliasNames |-> ""]
    /\ mappings = [i \in IndexNames |->
                     IF i = OldIndexName THEN OldMapping
                     ELSE IF i = NewIndexName THEN NewMapping ELSE ""]
    /\ pc \in {"waitForReadOnly", "waitForCompletion"}
    /\ faults \in BOOLEAN
    /\ \E b \in PollBudgets :
         /\ maxErrors = b.maxErrors
         /\ taskErrCount = b.taskErrCount
         /\ history = IF b.fresh \/ pc = "waitForReadOnly" THEN <<>> ELSE <<0>>
    /\ \E n \in 0..MaxDocs :
         IF pc = "waitForReadOnly"
         THEN \* setReadOnly has returned nil; its effect may not be visible
              /\ docs = [i \in IndexNames |-> IF i = OldIndexName THEN 1..n ELSE {}]
              /\ \E b \in BlockStates :
                   blocks = [i \in IndexNames |-> IF i = OldIndexName THEN b ELSE NoBlocks]
              /\ pending \in {{}, {OldIndexName}}
              /\ blocks[OldIndexName] = "true" => pending = {}
              /\ task = NoTask
              /\ count = 0
              /\ completeCount = 0
              /\ phase = "ReadOnlyLock"
              /\ issued = {"clusterHealth", "aliases", "createIndex", "putSettings"}
         ELSE \* reindex has returned the expected count; the copy goes on or
              \* has died
              /\ \E m \in 0..n :
                   /\ docs = [i \in IndexNames |->
                                IF i = OldIndexName THEN 1..n
                                ELSE IF i = NewIndexName THEN 1..m ELSE {}]
                   /\ task \in {[src |-> OldIndexName, dest |-> NewIndexName, todo |-> t] :
                                   t \in {{}, (1..n) \ (1..m)}}
              /\ blocks = [i \in IndexNames |-> IF i = OldIndexName THEN "true" ELSE NoBlocks]
              /\ pending = {}
              /\ completeCount \in 0..MaxDocs
              /\ count = completeCount
              /\ phase = "Copying"
              /\ issued = {"clusterHealth", "aliases", "createIndex", "putSettings",
                           "getSettings", "count", "reindex"}
    /\ elasticClient = "ec1"
    /\ client = "ec1"
    /\ indexVersion = NextVersion
    /\ mappingFile = TestNewMappingFile
    /\ aliasFilterFile = filterFile
    /\ aliasForAllConcepts = ""
    /\ progress = "starting"
    /\ migrationCheck = FALSE
    /\ migrationErr = Nil
    /\ handlesLeft = MaxHandles - 1
    /\ requireUpdate = TRUE
    /\ currentIndexName = OldIndexName
    /\ newIndexName = NewIndexName
    /\ ret = Nil
    /\ aliasStart = aliases
    /\ alias0 = aliases
    /\ aliasReq = <<>>
    /\ opErr = Nil
    /\ lastPoll = NoPoll
    /\ mu = Unlocked
    /\ setter = NoSetter
    /\ checker = [h \in Checkers |-> NoChecker]
    /\ mcheck = NoMappingsCheck

PollInit == PollInitFor("")

PollNext ==
    \/ WaitForReadOnly
    \/ WaitForReadOnlyRetry
    \/ WaitForCompletion
    \/ UpdateAlias
    \/ RecordErr
    \/ RecordCheck
    \/ \E i \in IndexNames : ClientWrite(i)
    \/ \E i \in IndexNames : ApplyPending(i)
    \/ CopyStep

\* the goroutine keeps running and every request returns; the cluster and
\* its clients owe nothing
PollSpec ==
    /\ PollInit
    /\ [][PollNext]_vars
    /\ WF_vars(WaitForReadOnly)
    /\ WF_vars(WaitForReadOnlyRetry)
    /\ WF_vars(WaitForCompletion)
    /\ WF_vars(UpdateAlias)
    /\ WF_vars(RecordErr)
    /\ WF_vars(RecordCheck)

\* C15 as stated: every call of a polling loop ends, and the run either goes
\* on to reindex or ends with its outcome recorded and migrationCheck true; a
\* loop gives up only with its counter of failed observations at the budget,
\* and the run then fails with the loop's "process may have stalled" error,
\* whatever the observations failed on; a copy that has died short of the
\* expected count ends in a run that has failed with the stalled error.
StalledErrs == {ErrReadOnlyStalled(currentIndexName), ErrReindexStalled(newIndexName)}
CopyDied ==
    /\ pc = "waitForCompletion"
    /\ task.todo = {}
    /\ completeCount = Cardinality(docs[currentIndexName])
    /\ Cardinality(docs[newIndexName]) # completeCount
C15_PollingEnds ==
    /\ <>(pc \in {"idle", "reindex"})
    /\ [](pc = "idle" => migrationCheck /\ migrationErr = ret)
    /\ []((pc \in {"returned", "recorded"} /\ phase \in {"ReadOnlyLock", "WaitCompletion"}) =>
            /\ taskErrCount = maxErrors
            /\ ret \in StalledErrs)
    /\ [](pc \in LoopPcs => taskErrCount < maxErrors)
    /\ (CopyDied ~> (pc = "idle" /\ migrationErr = ErrReindexStalled(newIndexName)))

\* C16: when no request fails and the copy has died short of the expected
\* count, waitForCompletion returns the "process may have stalled" error, with
\* its counter (the number of stall events when it started at 0) equal to the
\* budget; it returns that error in no other situation, and goes on polling
\* after a stall event that leaves the counter below the budget.
StalledForGood ==
    /\ pc = "waitForCompletion"
    /\ ~faults
    /\ task.todo = {}
    /\ Cardinality(docs[newIndexName]) # completeCount
C16_StallBudget ==
    /\ [](lastPoll.n < MaxPollNo)
    /\ (StalledForGood ~>
            (pc = "returned" /\ ret = ErrReindexStalled(newIndexName)
                /\ taskErrCount = maxErrors))
    /\ [][(pc = "waitForCompletion" /\ lastPoll' # lastPoll /\ lastPoll'.err = Nil) =>
            /\ taskErrCount' \in {taskErrCount, taskErrCount + 1}
            /\ (taskErrCount' = taskErrCount + 1 /\ taskErrCount' < maxErrors) =>
                    pc' = "waitForCompletion"
            /\ (taskErrCount' = taskErrCount + 1 /\ taskErrCount' = maxErrors) =>
                    pc' = "returned" /\ ret' = ErrReindexStalled(newIndexName)
            /\ (pc' = "returned") =>
                    /\ taskErrCount' = taskErrCount + 1
                    /\ taskErrCount' = maxErrors
                    /\ ~lastPoll'.finished
                    /\ maxErrors # MaxInt32 => lastPoll'.n >= HistoryLen + 1
          ]_vars

\* a call with the largest budget of the model has returned the stalled
\* error after that many stall events and no failed request
C16_Witness ==
    /\ pc = "returned"
    /\ ~faults
    /\ ret = ErrReindexStalled(NewIndexName)
    /\ maxErrors = MaxTaskErrs
    /\ taskErrCount = MaxTaskErrs
    /\ lastPoll.n = MaxTaskErrs * HistoryLen + 1

\* the window an iteration of waitForCompletion that goes on polling leaves,
\* and the number of times it incremented the error counter
WindowAfter == PushHistory(history, lastPoll'.done)
PollGoesOn == pc = "waitForCompletion" /\ lastPoll' # lastPoll /\ pc' = "waitForCompletion"
ErrCounted == IF lastPoll'.err # Nil THEN 1 ELSE 0

\* C17 as stated: a stall event (counter incremented, window reset to the
\* current value) at the poll at which the window holds 5 values, the oldest
\* equal to the newest.
C17_StallWhenWindowFull ==
    [][PollGoesOn =>
        IF Len(WindowAfter) = HistoryLen /\ WindowAfter[1] = WindowAfter[HistoryLen]
        THEN taskErrCount' = taskErrCount + ErrCounted + 1 /\ history' = <<lastPoll'.done>>
        ELSE taskErrCount' = taskErrCount + ErrCounted /\ history' = WindowAfter]_vars

\* C17 (amended): the window holds the last 5 observed counts at most, the
\* oldest evicted on overflow; a stall event (counter incremented by one,
\* window reset to the current value) is raised at a poll exactly when the
\* window overflows at it, i.e. it already held 5 values, and after the
\* eviction its oldest value equals the newest.  The poll that fills the
\* window raises none.
C17_StallOnOverflow ==
    /\ [](Len(history) <= HistoryLen)
    /\ [][PollGoesOn =>
            IF Len(history) = HistoryLen /\ WindowAfter[1] = WindowAfter[HistoryLen]
            THEN taskErrCount' = taskErrCount + ErrCounted + 1 /\ history' = <<lastPoll'.done>>
            ELSE /\ taskErrCount' = taskErrCount + ErrCounted
                 /\ history' = WindowAfter
                 /\ Len(history) < HistoryLen => history' = Append(history, lastPoll'.done)
                 /\ Len(history) = HistoryLen =>
                        history' = Append(SubSeq(history, 2, HistoryLen), lastPoll'.done)]_vars

\* the first stall event of a call: the sixth poll of a count that has not
\* moved, the window reset to that count, the loop still polling
C17_Witness ==
    /\ pc = "waitForCompletion"
    /\ ~faults
    /\ maxErrors = MaxTaskErrs
    /\ lastPoll.n = HistoryLen + 1
    /\ taskErrCount = 1
    /\ history = <<lastPoll.done>>

\* an iteration of the loop of waitForCompletion
PollStep == pc = "waitForCompletion" /\ lastPoll' # lastPoll

\* C18: isTaskComplete reports done exactly when the count it got equals the
\* expected count, and that count is the destination's document count when
\* the request succeeded; waitForCompletion returns nil only at a poll that
\* reported done, and at the first one: a poll without error that reports
\* done returns nil, and no earlier poll of a loop still running reported
\* done.  (A poll whose request failed compares the count 0; it returns nil
\* when 0 is expected, unless that failure used up the budget.)
C18_CountEquality ==
    /\ [][PollStep =>
            /\ lastPoll'.finished <=> (lastPoll'.done = completeCount)
            /\ lastPoll'.err = Nil => lastPoll'.done = Cardinality(docs[newIndexName])
            /\ lastPoll'.err # Nil => lastPoll'.done = 0
            /\ (pc' = "updateAlias") => lastPoll'.done = completeCount /\ opErr' = Nil
            /\ (lastPoll'.done = completeCount /\ lastPoll'.err = Nil) =>
                    pc' = "updateAlias" /\ opErr' = Nil
            /\ (lastPoll'.done = completeCount /\ lastPoll'.err # Nil) =>
                    \/ pc' = "updateAlias" /\ opErr' = Nil
                    \/ pc' = "returned" /\ ret' = lastPoll'.err /\ taskErrCount' = maxErrors
          ]_vars
    /\ [][(pc' = "updateAlias" /\ pc # "updateAlias") => PollStep]_vars
    /\ []((pc = "waitForCompletion" /\ lastPoll.n > 0) => lastPoll.done # completeCount)

\* waitForCompletion has returned nil at its third poll or later, on a count
\* that had to grow to the expected one
C18_Witness ==
    /\ pc = "updateAlias"
    /\ opErr = Nil
    /\ lastPoll.n > 2
    /\ lastPoll.err = Nil
    /\ lastPoll.done = completeCount
    /\ completeCount = MaxDocs
    /\ Cardinality(docs[newIndexName]) = completeCount

\* C20: every iteration of waitForCompletion, whether it sleeps, ends the loop
\* or returns an error, and whether or not its count request failed, leaves
\* progress = "<done> / <completeCount> documents reindexed" with the count
\* the iteration got (0 from a failed request); nothing else in the loops
\* writes progress.
C20_ProgressEveryPoll ==
    /\ [][PollStep => progress' = ProgressString(lastPoll'.done, completeCount)]_vars
    /\ [][(pc \in LoopPcs /\ progress' # progress) => PollStep]_vars
    /\ []((pc = "waitForCompletion" /\ lastPoll.n > 0) =>
            progress = ProgressString(lastPoll.done, completeCount))

\* waitForCompletion has returned the transport error of a poll, with a
\* destination that holds documents, and progress shows that poll's count 0
C20_Witness ==
    /\ pc = "returned"
    /\ lastPoll.err = ErrTransport
    /\ ret = ErrTransport
    /\ completeCount = MaxDocs
    /\ docs[newIndexName] # {}
    /\ progress = ProgressString(0, MaxDocs)
    /\ progress # ProgressString(Cardinality(docs[newIndexName]), MaxDocs)

(***************************************************************************)
(* The handle and its lock on their own: the goroutine receives handles    *)
(* and replaces es.elasticClient under the write lock, then reads it back  *)
(* through esClient() as MigrateIndex does; health checks read it through  *)
(* esClient() and GetClusterHealth() at any time.  The assignment is taken *)
(* as two steps with a partial value in between, so that the exclusion is  *)
(* what keeps readers from seeing it.  The run itself is left out.         *)
(***************************************************************************)
lockRest == <<clusterVars, configVars, stateVars, pc, requireUpdate, currentIndexName,
              newIndexName, count, completeCount, taskErrCount, history, maxErrors, ret,
              ghostVars, mcheck>>

\* sync.RWMutex: a read lock is granted unless a writer holds the lock or
\* waits for it
CanRLock == ~mu.w /\ ~mu.waiting

\* for ec := range ch
SetterReceive(ec) ==
    /\ setter.pc = "idle"
    /\ handlesLeft > 0
    /\ handlesLeft' = handlesLeft - 1
    /\ setter' = [pc |-> "Lock", ec |-> ec, prev |-> elasticClient, seen |-> NilClient,
                  health |-> Nil]
    /\ UNCHANGED <<lockRest, elasticClient, client, mu, checker>>

\* es.Lock(), first half: the writer announces itself
SetterLockRequest ==
    /\ setter.pc = "Lock"
    /\ mu' = [mu EXCEPT !.waiting = TRUE]
    /\ setter' = [setter EXCEPT !.pc = "LockWait"]
    /\ UNCHANGED <<lockRest, elasticClient, client, handlesLeft, checker>>

\* setElasticClient without es.Lock()
SetterLock_NoLock ==
    /\ setter.pc = "LockWait"
    /\ mu' = [mu EXCEPT !.waiting = FALSE]
    /\ setter' = [setter EXCEPT !.pc = "assign"]
    /\ UNCHANGED <<lockRest, elasticClient, client, handlesLeft, checker>>

\* es.Lock(), second half: granted when the readers have left
SetterLock ==
    /\ setter.pc = "LockWait"
    /\ mu.r = {}
    /\ mu' = [w |-> TRUE, waiting |-> FALSE, r |-> {}]
    /\ setter' = [setter EXCEPT !.pc = "assign"]
    /\ UNCHANGED <<lockRest, elasticClient, client, handlesLeft, checker>>

\* es.elasticClient = ec, begun
SetterAssign ==
    /\ setter.pc = "assign"
    /\ elasticClient' = PartialClient
    /\ setter' = [setter EXCEPT !.pc = "assigning"]
    /\ UNCHANGED <<lockRest, client, handlesLeft, mu, checker>>

\* es.elasticClient = ec, completed
SetterAssigned ==
    /\ setter.pc = "assigning"
    /\ elasticClient' = setter.ec
    /\ setter' = [setter EXCEPT !.pc = "Unlock"]
    /\ UNCHANGED <<lockRest, client, handlesLeft, mu, checker>>

\* defer es.Unlock(); the goroutine goes on to MigrateIndex
SetterUnlock ==
    /\ setter.pc = "Unlock"
    /\ mu' = [mu EXCEPT !.w = FALSE]
    /\ setter' = [setter EXCEPT !.pc = "MigrateIndex"]
    /\ UNCHANGED <<lockRest, elasticClient, client, handlesLeft, checker>>

\* MigrateIndex: if len(es.indexVersion) == 0 { return ErrNoIndexVersion },
\* else es.healthChecker()
MigrateStart ==
    /\ setter.pc = "MigrateIndex"
    /\ setter' = [setter EXCEPT !.pc = IF Len(indexVersion) = 0 THEN "idle"
                                       ELSE "healthChecker"]
    /\ UNCHANGED <<lockRest, elasticClient, client, handlesLeft, mu, checker>>

\* the read locks of the goroutine in MigrateIndex: RLock of esClient() in
\* healthChecker, of GetClusterHealth() in healthChecker, and of
\* client := es.esClient()
MigrateRLock ==
    /\ setter.pc \in {"healthChecker", "GetClusterHealth", "esClient"}
    /\ CanRLock
    /\ mu' = [mu EXCEPT !.r = @ \cup {Migrator}]
    /\ setter' = [setter EXCEPT !.pc = @ \o "Read"]
    /\ UNCHANGED <<lockRest, elasticClient, client, handlesLeft, checker>>

\* under the read lock: return service.elasticClient (esClient), or
\* checkElasticClient and the cluster-health request (GetClusterHealth), whose
\* answer healthChecker turns into its error
MigrateRead ==
    /\ setter.pc \in {"healthCheckerRead", "GetClusterHealthRead", "esClientRead"}
    /\ \E resp \in HealthResponses :
         /\ setter' = [setter EXCEPT
                         !.pc = IF @ = "healthCheckerRead" THEN "healthCheckerRUnlock"
                                ELSE IF @ = "GetClusterHealthRead"
                                THEN "GetClusterHealthRUnlock" ELSE "esClientRUnlock",
                         !.seen = IF setter.pc = "healthCheckerRead" THEN elasticClient
                                  ELSE @,
                         !.health = IF setter.pc # "GetClusterHealthRead" THEN @
                                    ELSE IF elasticClient = NilClient
                                    THEN ErrNoElasticClient
                                    ELSE healthChecker(elasticClient, resp).err]
    /\ client' = IF setter.pc = "esClientRead" THEN elasticClient ELSE client
    /\ UNCHANGED <<lockRest, elasticClient, handlesLeft, mu, checker>>

\* the deferred RUnlock(): healthChecker goes on to GetClusterHealth when
\* esClient() was not nil, MigrateIndex to client := es.esClient() when the
\* check gave no error and returns otherwise; after the last read the run
\* follows, then the next handle
MigrateRUnlock ==
    /\ setter.pc \in {"healthCheckerRUnlock", "GetClusterHealthRUnlock", "esClientRUnlock"}
    /\ mu' = [mu EXCEPT !.r = @ \ {Migrator}]
    /\ LET next == IF setter.pc = "healthCheckerRUnlock" /\ setter.seen # NilClient
                    THEN "GetClusterHealth"
                    ELSE IF setter.pc = "GetClusterHealthRUnlock" /\ setter.health = Nil
                    THEN "esClient"
                    ELSE "idle"
       IN  \* the locals of healthChecker end with the run
           setter' = IF next = "idle"
                     THEN [setter EXCEPT !.pc = next, !.seen = NilClient, !.health = Nil]
                     ELSE [setter EXCEPT !.pc = next]
    /\ UNCHANGED <<lockRest, elasticClient, client, handlesLeft, checker>>

\* a health check begins: healthChecker or connectivityChecker calls esClient()
CheckStart(h) ==
    /\ checker[h].pc = "idle"
    /\ checker' = [checker EXCEPT ![h].pc = "esClient"]
    /\ UNCHANGED <<lockRest, elasticClient, client, handlesLeft, mu, setter>>

\* RLock() of esClient or of GetClusterHealth
CheckRLock(h) ==
    /\ checker[h].pc \in {"esClient", "GetClusterHealth"}
    /\ CanRLock
    /\ mu' = [mu EXCEPT !.r = @ \cup {h}]
    /\ checker' = [checker EXCEPT ![h].pc = @ \o "Read"]
    /\ UNCHANGED <<lockRest, elasticClient, client, handlesLeft, setter>>

\* the read of es.elasticClient: the return value of esClient, or the handle
\* checkElasticClient tests and the request is sent on
CheckRead(h) ==
    /\ checker[h].pc \in {"esClientRead", "GetClusterHealthRead"}
    /\ checker' = [checker EXCEPT
                     ![h].seen = elasticClient,
                     ![h].pc = IF @ = "esClientRead" THEN "esClientRUnlock"
                               ELSE "GetClusterHealthRUnlock"]
    /\ UNCHANGED <<lockRest, elasticClient, client, handlesLeft, mu, setter>>

\* an esClient() that keeps its read lock when the handle is not nil, so that
\* GetClusterHealth asks for the read lock while the check still holds it
CheckRUnlock_Held(h) ==
    /\ checker[h].pc \in {"esClientRUnlock", "GetClusterHealthRUnlock"}
    /\ mu' = IF checker[h].pc = "esClientRUnlock" /\ checker[h].seen # NilClient
             THEN mu ELSE [mu EXCEPT !.r = @ \ {h}]
    /\ checker' = [checker EXCEPT
                     ![h].pc = IF @ = "esClientRUnlock" /\ checker[h].seen # NilClient
                               THEN "GetClusterHealth" ELSE "idle"]
    /\ UNCHANGED <<lockRest, elasticClient, client, handlesLeft, setter>>

\* the deferred RUnlock(); after esClient() != nil the check goes on to
\* GetClusterHealth, otherwise it is over
CheckRUnlock(h) ==
    /\ checker[h].pc \in {"esClientRUnlock", "GetClusterHealthRUnlock"}
    /\ mu' = [mu EXCEPT !.r = @ \ {h}]
    /\ checker' = [checker EXCEPT
                     ![h].pc = IF @ = "esClientRUnlock" /\ checker[h].seen # NilClient
                               THEN "GetClusterHealth" ELSE "idle"]
    /\ UNCHANGED <<lockRest, elasticClient, client, handlesLeft, setter>>

LockInit ==
    /\ Init
    /\ indices = {}
    /\ mappingFile = TestNewMappingFile
    /\ aliasFilterFile = ""

LockNext ==
    \/ \E ec \in Handles : SetterReceive(ec)
    \/ SetterLockRequest
    \/ SetterLock
    \/ SetterAssign
    \/ SetterAssigned
    \/ SetterUnlock
    \/ MigrateStart
    \/ MigrateRLock
    \/ MigrateRead
    \/ MigrateRUnlock
    \/ \E h \in Checkers : CheckStart(h)
    \/ \E h \in Checkers : CheckRLock(h)
    \/ \E h \in Checkers : CheckRead(h)
    \/ \E h \in Checkers : CheckRUnlock(h)

LockSpec == LockInit /\ [][LockNext]_vars

\* C13: while setElasticClient is between Lock and Unlock no reader holds the
\* read lock, and only then is the handle being assigned; a health check or
\* MigrateIndex reads the handle only while it holds the read lock; every
\* read gives the handle before the latest replacement or the handle after
\* it, never the value of an assignment under way.
WriterInside == setter.pc \in {"assign", "assigning", "Unlock"}
ReaderInside(h) == checker[h].pc \in {"esClientRead", "esClientRUnlock",
                                      "GetClusterHealthRead", "GetClusterHealthRUnlock"}
MigratorInside == setter.pc \in {"healthCheckerRead", "healthCheckerRUnlock",
                                  "GetClusterHealthRead", "GetClusterHealthRUnlock",
                                  "esClientRead", "esClientRUnlock"}
C13_HandleExclusive ==
    /\ [](WriterInside <=> mu.w)
    /\ [](mu.w => mu.r = {})
    /\ [](\A h \in Checkers : ReaderInside(h) <=> h \in mu.r)
    /\ [](MigratorInside <=> Migrator \in mu.r)
    /\ [](WriterInside => (~MigratorInside /\ \A h \in Checkers : ~ReaderInside(h)))
    /\ [](elasticClient = PartialClient => setter.pc = "assigning")
    /\ [](client # PartialClient /\ \A h \in Checkers : checker[h].seen # PartialClient)
    /\ [](setter.seen # PartialClient)
    /\ [][(setter'.seen # setter.seen /\ setter'.pc \notin {"Lock", "idle"}) =>
            setter'.seen = elasticClient /\ setter'.seen = setter.ec]_vars
    /\ [][setter'.health # setter.health =>
            setter.pc \in {"GetClusterHealthRead", "GetClusterHealthRUnlock"}]_vars
    /\ [][\A h \in Checkers : checker'[h].seen # checker[h].seen =>
            /\ checker'[h].seen = elasticClient
            /\ checker'[h].seen \in {setter.prev, setter.ec}]_vars
    /\ [][client' # client =>
            /\ client' = elasticClient
            /\ client' = setter.ec
            /\ setter.seen = setter.ec
            /\ setter.health = Nil]_vars

\* a second handle has replaced the first: one health check read the first,
\* the other and MigrateIndex the second, and the lock is free again
C13_Witness ==
    /\ setter.prev = "ec1"
    /\ setter.ec = "ec2"
    /\ elasticClient = "ec2"
    /\ client = "ec2"
    /\ checker["h1"].seen = "ec1"
    /\ checker["h2"].seen = "ec2"
    /\ mu = Unlocked

(***************************************************************************)
(* The migration state and the goroutine.                                  *)
(***************************************************************************)
\* C11: the goroutine leaves the position where MigrateIndex has returned
\* only by storing the returned value in migrationErr, and the position after
\* that only by setting migrationCheck; it reaches these positions in no
\* other way, once per run; no other step changes either field; and between
\* two runs migrationErr is the value the last run returned and
\* migrationCheck is true.
AttemptRunning == pc \notin {"idle", "returned", "recorded"}
C11_OutcomeRecordedOnce ==
    /\ [][/\ pc = "returned" /\ pc' # pc =>
                pc' = "recorded" /\ migrationErr' = ret /\ UNCHANGED migrationCheck
          /\ pc = "recorded" /\ pc' # pc =>
                pc' = "idle" /\ migrationCheck' /\ UNCHANGED migrationErr
          /\ pc' = "recorded" /\ pc' # pc => pc = "returned"
          /\ pc' = "idle" /\ pc' # pc => pc = "recorded"
          /\ pc \notin {"returned", "recorded"} =>
                UNCHANGED <<migrationErr, migrationCheck>>
         ]_vars
    /\ [](AttemptRunning =>
            (handlesLeft = MaxHandles - 1 => (~migrationCheck /\ migrationErr = Nil)))
    /\ []((pc = "idle" /\ handlesLeft < MaxHandles) =>
            (migrationCheck /\ migrationErr = ret))

\* the second run succeeded after a first one that failed: nil replaced the
\* error of the first run
C11_Witness ==
    /\ pc = "idle"
    /\ handlesLeft = MaxHandles - 2
    /\ alias0[AliasName] = {OldIndexName}
    /\ phase = "Cutover"
    /\ migrationCheck
    /\ migrationErr = Nil

\* C12: a handle is taken from the channel and installed only while no run
\* is under way, every run starts with the receipt of one handle, a run ends
\* only through the recording of its outcome, and the handle MigrateIndex
\* works with is the one installed for the whole run.
C12_OneRunPerHandle ==
    /\ [][/\ (elasticClient' # elasticClient \/ handlesLeft' # handlesLeft) =>
                pc = "idle" /\ pc' = "MigrateIndex"
          /\ (pc' = "MigrateIndex" /\ pc' # pc) =>
                pc = "idle" /\ handlesLeft' = handlesLeft - 1
          /\ (pc = "idle" /\ pc' # pc) => pc' = "MigrateIndex"
         ]_vars
    /\ [](client # NilClient => client = elasticClient)
    /\ [](pc \in {"checkIndexAliases", "createIndex", "setReadOnly", "waitForReadOnly",
                  "waitForReadOnlyRetry", "reindex", "waitForCompletion", "updateAlias"}
            => (client = elasticClient /\ client # NilClient))

\* the second run, started by the second handle after a failed first run, is
\* in the middle of the copy
C12_Witness ==
    /\ handlesLeft = MaxHandles - 2
    /\ pc = "waitForCompletion"
    /\ client = "ec1"
    /\ migrationErr # Nil
    /\ task.todo # {}

\* C14: no health check observes the state in which migrationErr holds the
\* result of the finished run while migrationCheck is still what it was
\* before: mappingsChecker never reads migrationCheck in such a state.
C14_OutcomeAtomic ==
    [][(mcheck.pc = "migrationCheck" /\ mcheck'.pc # mcheck.pc) =>
          ~(pc = "recorded" /\ migrationErr = ret /\ ~migrationCheck)]_vars

\* C19: once reindex has read the count of the source (before it sends the
\* reindex request, and after it has returned the count as the expected
\* count), and until the next run starts, the source holds exactly that many
\* documents and still has its write block; and no step takes a document out
\* of the destination.
ExpectedCountRead ==
    NonBootstrapRun /\ phase \in {"WaitCompletion", "Cutover"}
C19_CountsStable ==
    /\ [](pc = "reindexStart" =>
            /\ Cardinality(docs[currentIndexName]) = count
            /\ WriteBlocked(currentIndexName))
    /\ [][pc = "reindexStart" =>
            /\ docs'[currentIndexName] = docs[currentIndexName]
            /\ docs[newIndexName] \subseteq docs'[newIndexName]
            /\ pc' = "waitForCompletion" => completeCount' = count
         ]_vars
    /\ []((pc = "waitForCompletion" \/ ExpectedCountRead) =>
            /\ Cardinality(docs[currentIndexName]) = completeCount
            /\ WriteBlocked(currentIndexName))
    /\ [][(pc = "waitForCompletion" \/ ExpectedCountRead) =>
            /\ docs'[currentIndexName] = docs[currentIndexName]
            /\ docs[newIndexName] \subseteq docs'[newIndexName]
            /\ Cardinality(docs'[newIndexName]) >= Cardinality(docs[newIndexName])
            /\ Cardinality(docs'[newIndexName]) <= completeCount
         ]_vars

\* the copy is half way: the destination holds some of the documents the
\* source holds
C19_Witness ==
    /\ pc = "waitForCompletion"
    /\ completeCount = MaxDocs
    /\ docs[newIndexName] # {}
    /\ docs[newIndexName] # docs[currentIndexName]
    /\ lastPoll.n > 0

(***************************************************************************)
(* waitForReadOnly, iteration by iteration.                                *)
(***************************************************************************)
\* an iteration of the loop of waitForReadOnly
ObsStep == pc = "waitForReadOnly" /\ lastPoll' # lastPoll

\* C21: an iteration of waitForReadOnly that did not see the write block and
\* did not end the loop is followed by the retry (setReadOnly again, then the
\* sleep), whatever kept it from seeing the block; the next IndexGetSettings
\* comes only after that.
C21_RetryAfterEveryMiss ==
    [][(ObsStep /\ ~lastPoll'.finished /\ pc' # "returned") =>
            pc' = "waitForReadOnlyRetry"]_vars

\* what an iteration of waitForReadOnly does besides the error it may return:
\* nil at once when the request succeeded and index.blocks.write is true,
\* otherwise one more on the counter and, with the counter at the budget, the
\* return; a call that started at 0 has then made exactly maxErrors requests
ObsOutcome ==
    /\ lastPoll'.finished <=> (lastPoll'.err = Nil /\ blocks[currentIndexName] = "true")
    /\ lastPoll'.finished =>
            pc' = "reindex" /\ taskErrCount' = taskErrCount /\ opErr' = Nil
    /\ ~lastPoll'.finished =>
            /\ taskErrCount' = taskErrCount + 1
            /\ (pc' = "returned") <=> (taskErrCount' = maxErrors)
            /\ (pc' # "returned") => pc' \in {"waitForReadOnly", "waitForReadOnlyRetry"}
            /\ (pc' = "returned" /\ maxErrors # MaxInt32) => lastPoll'.n = maxErrors

\* C22 as stated: nil as soon as the write block is observed, otherwise the
\* failure after maxErrors unsuccessful observations is the read-only stalled
\* error, whatever the observations failed on.
C22_StalledWhateverCause ==
    [][ObsStep =>
        /\ ObsOutcome
        /\ (pc' = "returned") => ret' = ErrReadOnlyStalled(currentIndexName)]_vars

(***************************************************************************)
(* The end of a run on its own: MigrateIndex from the call of              *)
(* waitForCompletion, with the copy under way ("migrate"); at the cutover  *)
(* of a run that found the alias on no index and has created the new       *)
(* index ("bootstrap"); updateAlias called for a new index that does not   *)
(* exist, as the tests call it ("direct"); or the run from its call of     *)
(* reindex, in a cluster where either index may be missing, as the tests   *)
(* call reindex ("reindex").  The cluster may carry the second alias, on   *)
(* no index or on the old one.                                             *)
(***************************************************************************)
CutoverInit ==
    \E kind \in {"migrate", "bootstrap", "direct", "reindex"},
       n \in 0..MaxDocs, m \in 0..MaxDocs, missing \in SUBSET {OldIndexName, NewIndexName} :
        /\ m <= n
        /\ kind # "migrate" => m = 0
        /\ kind # "reindex" => missing = {}
        /\ OldIndexName \in missing => n = 0
        /\ indices = IF kind = "migrate" THEN {OldIndexName, NewIndexName}
                     ELSE IF kind = "bootstrap" THEN {NewIndexName}
                     ELSE IF kind = "direct" THEN {OldIndexName}
                     ELSE {OldIndexName, NewIndexName} \ missing
        /\ docs = [i \in IndexNames |->
                     IF i = OldIndexName /\ kind # "bootstrap" THEN 1..n
                     ELSE IF i = NewIndexName THEN 1..m ELSE {}]
        /\ mappings = [i \in IndexNames |->
                         IF i \notin indices THEN ""
                         ELSE IF i = NewIndexName THEN NewMapping ELSE OldMapping]
        /\ blocks = [i \in IndexNames |->
                       IF i = OldIndexName /\ i \in indices /\ kind \in {"migrate", "reindex"}
                       THEN "true" ELSE NoBlocks]
        /\ pending = {}
        /\ \E second \in SUBSET (indices \cap {OldIndexName}) :
             aliases = [a \in AllAliasNames |->
                          IF a = AliasName THEN indices \cap {OldIndexName} ELSE second]
        /\ aliasFilters = [a \in AllAliasNames |-> ""]
        /\ task = IF kind = "migrate"
                  THEN [src |-> OldIndexName, dest |-> NewIndexName,
                        todo |-> (1..n) \ (1..m)]
                  ELSE NoTask
        /\ aliasFilterFile \in IF kind \in {"direct", "reindex"} THEN {""}
                               ELSE {"", TestAliasFilterFile, NoSuchFile}
        /\ aliasForAllConcepts \in IF kind \in {"direct", "reindex"} THEN {""}
                                   ELSE {"", AliasForAllConcepts}
        /\ currentIndexName = IF kind = "bootstrap" THEN "" ELSE OldIndexName
        /\ completeCount = IF kind = "migrate" THEN n ELSE 0
        /\ count = completeCount
        /\ maxErrors = IF kind = "migrate" THEN MaxInt32 ELSE 0
        /\ progress = "starting"
        /\ lastPoll = NoPoll
        /\ phase = IF kind = "migrate" THEN "Copying"
                   ELSE IF kind = "reindex" THEN "ReadOnlyLock" ELSE "Provisioning"
        /\ issued = IF kind = "migrate"
                    THEN {"clusterHealth", "aliases", "createIndex", "putSettings",
                          "getSettings", "count", "reindex"}
                    ELSE IF kind = "reindex"
                    THEN {"clusterHealth", "aliases", "createIndex", "putSettings",
                          "getSettings"}
                    ELSE {"clusterHealth", "aliases", "createIndex"}
        /\ newIndexName = NewIndexName
        /\ requireUpdate = TRUE
        /\ pc = IF kind = "migrate" THEN "waitForCompletion"
                ELSE IF kind = "reindex" THEN "reindex" ELSE "updateAlias"
        /\ elasticClient = "ec1"
        /\ client = "ec1"
        /\ indexVersion = NextVersion
        /\ mappingFile = TestNewMappingFile
        /\ migrationCheck = FALSE
        /\ migrationErr = Nil
        /\ handlesLeft = MaxHandles - 1
        /\ taskErrCount = 0
        /\ history = <<>>
        /\ ret = Nil
        /\ aliasStart = aliases
        /\ alias0 = aliases
        /\ aliasReq = <<>>
        /\ opErr = Nil
        /\ faults = TRUE
        /\ mu = Unlocked
        /\ setter = NoSetter
        /\ checker = [h \in Checkers |-> NoChecker]
        /\ mcheck = NoMappingsCheck

CutoverNext ==
    \/ Reindex
    \/ WaitForCompletion
    \/ CopyStep
    \/ UpdateAliasFirst
    \/ UpdateAliasForAllConcepts
    \/ RecordErr
    \/ RecordCheck

CutoverSpec == CutoverInit /\ [][CutoverNext]_vars

\* C23: the alias request of updateAlias takes effect as a whole or not at
\* all: when it fails, no alias and no filter has changed, and an alias that
\* was on exactly the old index is still on exactly the old index; when it
\* succeeds, the alias is on exactly the new index.
C23_AllOrNothing ==
    [][(pc = "updateAlias" /\ "updateAliases" \in issued') =>
        IF opErr' # Nil
        THEN /\ aliases' = aliases
             /\ aliasFilters' = aliasFilters
             /\ NonBootstrapRun => aliases'[AliasName] = {currentIndexName}
             /\ pc' = "returned" /\ ret' = opErr'
        ELSE /\ aliases'[AliasName] = {newIndexName}
             /\ \A a \in AllAliasNames \ {AliasName} : aliases'[a] = aliases[a]]_vars

\* updateAlias has failed because the new index does not exist, with the
\* remove and the add in its request, and the alias is on the old index
C23_Witness ==
    /\ pc = "returned"
    /\ ret = ErrNoSuchIndex(NewIndexName)
    /\ NewIndexName \notin indices
    /\ Len(aliasReq) = 2
    /\ aliasReq[1].op = "remove" /\ aliasReq[1].index = OldIndexName
    /\ aliasReq[2].op = "add" /\ aliasReq[2].index = NewIndexName
    /\ aliases[AliasName] = {OldIndexName}

\* C24: a run whose alias filter file cannot be read never sends an alias
\* request and never succeeds; when it gets as far as the cutover it returns
\* the error of the read.  Every alias is where it was: the first alias of a
\* non-bootstrap run on exactly the old index, the second alias on no index
\* when it was on none; and the error is the outcome recorded.
C24_FilterUnreadable ==
    LET f == ReadFile(aliasFilterFile) IN
       (Len(aliasFilterFile) > 0 /\ f.err # Nil) =>
            /\ phase = "Cutover" => ret = f.err /\ opErr = f.err
            /\ pc \in {"returned", "recorded", "idle"} => ret # Nil
            /\ "updateAliases" \notin issued
            /\ aliasReq = <<>>
            /\ aliases = aliasStart
            /\ aliasFilters = [a \in AllAliasNames |-> ""]
            /\ NonBootstrapRun => aliases[AliasName] = {currentIndexName}
            /\ aliasStart[AliasForAllConcepts] = {} => aliases[AliasForAllConcepts] = {}
            /\ pc \notin {"updateAliasForAllConcepts"}
            /\ pc = "idle" => migrationErr = ret /\ migrationCheck

\* a run with a second alias configured and a filter file that does not
\* exist has been recorded as failed; the first alias is on the old index
\* and the second on none
C24_Witness ==
    /\ pc = "idle"
    /\ aliasFilterFile = NoSuchFile
    /\ aliasForAllConcepts = AliasForAllConcepts
    /\ phase = "Cutover"
    /\ migrationErr = ReadFile(NoSuchFile).err
    /\ aliases[AliasName] = {OldIndexName}
    /\ aliases[AliasForAllConcepts] = {}
    /\ NewIndexName \in indices
    /\ docs[NewIndexName] = docs[OldIndexName] /\ docs[OldIndexName] # {}

\* C25: when a non-bootstrap run with a second alias configured has returned
\* nil, the first alias and the second alias are each on exactly one index,
\* the new one, the second alias has no filter, and the new index holds as
\* many documents as the old one.
C25_BothAliasesOnNew ==
    (/\ pc \in {"returned", "recorded", "idle"}
     /\ ret = Nil
     /\ NonBootstrapRun
     /\ aliasForAllConcepts # "") =>
        /\ aliases[AliasName] = {newIndexName}
        /\ aliases[aliasForAllConcepts] = {newIndexName}
        /\ aliasFilters[aliasForAllConcepts] = ""
        /\ Cardinality(docs[newIndexName]) = Cardinality(docs[currentIndexName])
        /\ pc = "idle" => migrationErr = Nil /\ migrationCheck

\* a migration of a full index, copied during the run, has been recorded as
\* successful in a cluster whose second alias was on the old index
C25_Witness ==
    /\ pc = "idle"
    /\ migrationErr = Nil
    /\ aliasForAllConcepts = AliasForAllConcepts
    /\ aliasStart[AliasForAllConcepts] = {OldIndexName}
    /\ aliasStart[AliasName] = {OldIndexName}
    /\ aliases[AliasName] = {NewIndexName}
    /\ aliases[AliasForAllConcepts] = {NewIndexName}
    /\ lastPoll.n > 1
    /\ Cardinality(docs[NewIndexName]) = MaxDocs
    /\ docs[OldIndexName] = docs[NewIndexName]

\* C26: when a non-bootstrap run has returned nil, the new index holds all
\* documents of the old one and a configured second alias counts them all;
\* with a filter that half of the documents of the old index match, the
\* first alias counts exactly the matching half; without a filter file the
\* first alias counts all of them.
C26_FilteredHalf ==
    (pc \in {"returned", "recorded", "idle"} /\ ret = Nil /\ NonBootstrapRun) =>
        LET n == Cardinality(docs[currentIndexName])
            matching == Cardinality({d \in docs[currentIndexName] : MatchesFilter(d)})
        IN  /\ docs[newIndexName] = docs[currentIndexName]
            /\ aliasForAllConcepts # "" => AliasCount(aliasForAllConcepts) = n
            /\ (aliasFilterFile = TestAliasFilterFile /\ 2 * matching = n) =>
                    /\ AliasCount(AliasName) = matching
                    /\ 2 * AliasCount(AliasName) = n
            /\ aliasFilterFile = "" => AliasCount(AliasName) = n

\* a run with the filter file and the second alias has succeeded on an old
\* index of two documents, one of which matches: the first alias counts
\* one document, the second alias two
C26_Witness ==
    /\ pc = "idle"
    /\ migrationErr = Nil
    /\ aliasFilterFile = TestAliasFilterFile
    /\ aliasForAllConcepts = AliasForAllConcepts
    /\ Cardinality(docs[OldIndexName]) = 2
    /\ aliases[AliasName] = {NewIndexName}
    /\ AliasCount(AliasName) = 1
    /\ AliasCount(AliasForAllConcepts) = 2

(***************************************************************************)
(* What the mapping health check answers, attempt after attempt.           *)
(* mappingsChecker runs on an HTTP goroutine and reads es.migrationErr     *)
(* (161), es.migrationCheck (165) and es.progress (166) one after the      *)
(* other without any lock, while the goroutine of NewEsService writes      *)
(* them: one step of the check is one read of memory.  migrationErr (an    *)
(* interface) and progress (a string) are two words each; a read of one    *)
(* that overlaps an assignment is a data race and gives either value or    *)
(* one word of each.                                                       *)
(***************************************************************************)
MappingsChecker ==
    LET \* an interface value made of one word of each of two errors
        TornError == "<torn error>"
        \* the bytes behind a string, for a read that takes the length of another
        Beyond == "????????????????????????????????????????????????"
        \* type word of t, data word of d: nil when the type word is nil
        MixErr(t, d) == IF t = Nil THEN {Nil}
                        ELSE IF d = Nil THEN {TornError} ELSE {d, TornError}
        TornErrs(a, b) == IF a = b THEN {a}
                          ELSE {a, b} \cup MixErr(a, b) \cup MixErr(b, a)
        \* pointer word of x, length word n
        Cut(x, n) == IF n <= Len(x) THEN SubSeq(x, 1, n)
                     ELSE x \o SubSeq(Beyond, 1, n - Len(x))
        TornStrings(a, b) == IF a = b THEN {a}
                             ELSE {a, b, Cut(a, Len(b)), Cut(b, Len(a))}
        \* at this read, as at the reads before it, migrationErr holds the
        \* value it held when the check began
        Same(m) == m.stable /\ migrationErr = m.e0
        \* the check returns: its locals stay as the answer it gave
        Returned(m) == [m EXCEPT !.pc = "idle", !.w = "", !.done = TRUE, !.h0 = 0,
                                 !.over0 = FALSE]
    IN
    /\ \/ /\ mcheck.pc = "idle"
          /\ mcheck' = [NoMappingsCheck EXCEPT !.pc = "migrationErr", !.w = migrationErr,
                                               !.h0 = handlesLeft,
                                               !.over0 = (pc = "idle"),
                                               !.e0 = migrationErr]
       \* the condition: with an error either the return statement uses
       \* the value just loaded, or it loads the field again
       \/ /\ mcheck.pc = "migrationErr"
          /\ \E e \in TornErrs(mcheck.w, migrationErr) :
               LET m == [mcheck EXCEPT !.err = e, !.w = "",
                                       !.stable = Same(mcheck)]
               IN  \/ /\ e = Nil
                      /\ mcheck' = [m EXCEPT !.pc = "migrationCheck"]
                   \/ /\ e # Nil
                      /\ mcheck' = Returned([m EXCEPT !.errRet = e])
                   \/ /\ e # Nil
                      /\ mcheck' = [m EXCEPT !.pc = "return"]
       \* the operand of the return statement, loaded word by word
       \/ /\ mcheck.pc = "return"
          /\ mcheck' = [mcheck EXCEPT !.pc = "returnData", !.w = migrationErr,
                                      !.stable = Same(mcheck)]
       \/ /\ mcheck.pc = "returnData"
          /\ \E e \in TornErrs(mcheck.w, migrationErr) :
               mcheck' = Returned([mcheck EXCEPT !.errRet = e, !.stable = Same(mcheck)])
       \/ /\ mcheck.pc = "migrationCheck"
          /\ mcheck' = IF migrationCheck THEN Returned([mcheck EXCEPT !.check = TRUE])
                       ELSE [mcheck EXCEPT !.pc = "progress"]
       \/ /\ mcheck.pc = "progress"
          /\ mcheck' = [mcheck EXCEPT !.pc = "progressLen", !.w = progress]
       \/ /\ mcheck.pc = "progressLen"
          /\ \E p \in TornStrings(mcheck.w, progress) :
               mcheck' = Returned([mcheck EXCEPT !.prog = p])
    /\ UNCHANGED <<clusterVars, configVars, stateVars, elasticClient, handlesLeft, pc,
                   localVars, ghostVars, lockVars>>

\* what the check that has returned last answered
MappingsAnswer ==
    mappingsChecker(mcheck.err, mcheck.errRet, mcheck.check, indexVersion, mcheck.prog)

\* a fresh service on a cluster of one index of one document, which carries
\* the alias: the old index or already the new one; no client writes, the
\* requests of the polling loops are answered, and mapping health checks
\* come at any time
MappingsInit ==
    /\ indices \in {{OldIndexName}, {NewIndexName}}
    /\ aliases = [a \in AliasNames |-> indices]
    /\ docs = [i \in IndexNames |-> IF i \in indices THEN {1} ELSE {}]
    /\ mappings = [i \in IndexNames |-> IF i \in indices THEN OldMapping ELSE ""]
    /\ blocks = [i \in IndexNames |-> NoBlocks]
    /\ pending = {}
    /\ aliasFilters = [a \in AliasNames |-> ""]
    /\ task = NoTask
    /\ elasticClient = NilClient
    /\ indexVersion = NextVersion
    /\ mappingFile = TestNewMappingFile
    /\ aliasFilterFile = ""
    /\ aliasForAllConcepts = ""
    /\ progress = "not started"
    /\ migrationCheck = FALSE
    /\ migrationErr = Nil
    /\ handlesLeft = MaxHandles
    /\ pc = "idle"
    /\ client = NilClient
    /\ requireUpdate = FALSE
    /\ currentIndexName = ""
    /\ newIndexName = ""
    /\ count = 0
    /\ completeCount = 0
    /\ taskErrCount = 0
    /\ history = <<>>
    /\ maxErrors = 0
    /\ ret = Nil
    /\ phase = "NotStarted"
    /\ issued = {}
    /\ aliasStart = aliases
    /\ alias0 = aliases
    /\ aliasReq = <<>>
    /\ opErr = Nil
    /\ lastPoll = NoPoll
    /\ faults = FALSE
    /\ mu = Unlocked
    /\ setter = NoSetter
    /\ checker = [h \in Checkers |-> NoChecker]
    /\ mcheck = NoMappingsCheck

MappingsNext ==
    \/ \E ec \in Clients : Receive(ec)
    \/ HealthGate
    \/ CheckIndexAliases
    \/ CreateIndex
    \/ SetReadOnly
    \/ WaitForReadOnly
    \/ WaitForReadOnlyRetry
    \/ Reindex
    \/ WaitForCompletion
    \/ UpdateAlias
    \/ RecordErr
    \/ RecordCheck
    \/ \E i \in IndexNames : ApplyPending(i)
    \/ CopyStep
    \/ MappingsChecker

MappingsSpec == MappingsInit /\ [][MappingsNext]_vars

\* C27 as stated, for the one handle main.go delivers and a check that
\* begins after the handle has arrived: made while the attempt runs (from the
\* receipt of the handle until its outcome is stored) it answers the
\* in-progress message with the version; made after the attempt has failed it
\* answers the attempt's error; and it answers healthy only when the attempt
\* is over and has succeeded.
C27_InProgressWhileRunning ==
    [][(/\ mcheck.pc # "idle" /\ mcheck'.pc = "idle"
        /\ handlesLeft' = mcheck.h0 /\ handlesLeft' = MaxHandles - 1) =>
          /\ (handlesLeft' < MaxHandles /\ pc' \notin {"idle", "recorded"}) =>
                /\ MappingsAnswer'.err # Nil
                /\ MappingsAnswer'.err = MappingsAnswer'.msg
                /\ Contains(MappingsAnswer'.msg, "in progress")
                /\ Contains(MappingsAnswer'.msg, indexVersion)
          /\ (handlesLeft' < MaxHandles /\ mcheck.over0 /\ ret' # Nil) =>
                MappingsAnswer'.err = ret'
          /\ MappingsAnswer'.err = Nil =>
                (handlesLeft' < MaxHandles /\ pc' = "idle" /\ ret' = Nil)
      ]_vars

\* C28: the check answers from the values it read alone.  When migrationErr
\* holds one error at every read the check makes of it, the check answers
\* that error and the fixed message, without reading migrationCheck (in
\* general: having read an error in the condition it answers the fixed
\* message and what its return statement read); else with migrationCheck read
\* false an error whose message contains the version and the progress string
\* it read; else no error and a message that contains the version.
C28_CheckerCases ==
    mcheck.done =>
       /\ (mcheck.stable /\ mcheck.e0 # Nil) =>
            /\ MappingsAnswer.msg = "Elasticsearch mappings were not migrated successfully"
            /\ MappingsAnswer.err = mcheck.e0
            /\ ~mcheck.check
       /\ (mcheck.stable /\ mcheck.e0 = Nil) => mcheck.err = Nil
       /\ mcheck.err # Nil =>
            /\ MappingsAnswer.msg = "Elasticsearch mappings were not migrated successfully"
            /\ MappingsAnswer.err = mcheck.errRet
            /\ ~mcheck.check
       /\ (mcheck.err = Nil /\ ~mcheck.check) =>
            /\ MappingsAnswer.err # Nil
            /\ MappingsAnswer.err = MappingsAnswer.msg
            /\ Contains(MappingsAnswer.msg, indexVersion)
            /\ Contains(MappingsAnswer.msg, "(" \o mcheck.prog \o ")")
       /\ (mcheck.err = Nil /\ mcheck.check) =>
            /\ MappingsAnswer.err = Nil
            /\ Contains(MappingsAnswer.msg, indexVersion)
            /\ ~Contains(MappingsAnswer.msg, "in progress")

\* the error of a run that failed after its copy had begun is in migrationErr
\* and migrationCheck is not set yet: the check has answered that error
C28_Witness ==
    /\ pc = "recorded"
    /\ ~migrationCheck
    /\ migrationErr # Nil
    /\ progress # "starting"
    /\ progress # "not started"
    /\ mcheck.done
    /\ mcheck.stable
    /\ mcheck.e0 = migrationErr
    /\ MappingsAnswer.err = migrationErr

(***************************************************************************)
(* checkIndexAliases and reindex, call by call.                            *)
(***************************************************************************)
\* C29: the step of checkIndexAliases sends the aliases request and nothing
\* else and changes nothing in the cluster; when the request is answered and
\* the alias is on no index it returns (true, "", alias-version, nil); when
\* the alias is on exactly one index X it returns (X # alias-version, X,
\* alias-version, nil); the only error in these two cases is that of a
\* request that was not answered.
C29_CheckIndexAliases ==
    [][(pc = "checkIndexAliases" /\ pc' # pc) =>
          /\ UNCHANGED clusterVars
          /\ issued' \ issued \subseteq {"aliases"}
          /\ Cardinality(aliases[AliasName]) <= 1 =>
                /\ opErr' \in {Nil, ErrTransport}
                /\ opErr' = Nil =>
                     /\ newIndexName' = AliasName \o "-" \o indexVersion
                     /\ aliases[AliasName] = {} =>
                            requireUpdate' /\ currentIndexName' = ""
                     /\ \A X \in aliases[AliasName] :
                            /\ currentIndexName' = X
                            /\ requireUpdate' = (X # AliasName \o "-" \o indexVersion)
      ]_vars

\* the check has found the alias on the old index alone and asks for the
\* update to the new one
C29_Witness ==
    /\ phase = "AliasCheck"
    /\ opErr = Nil
    /\ aliases[AliasName] = {OldIndexName}
    /\ requireUpdate
    /\ currentIndexName = OldIndexName
    /\ newIndexName = NewIndexName
    /\ "aliases" \in issued

\* C30: no request of reindex changes an index, document, setting or alias;
\* the count of the source gives the number of its documents; reindex
\* returns nil only from its reindex request, both indices exist then, the
\* count it returns is the one it read from the source, still the number of
\* the source's documents, and one copy from the source to the destination
\* has been started where none was; when the destination or the source does
\* not exist, or a count is not answered, it returns 0 and the error (no such
\* index, for a missing index whose count was asked), and no reindex request
\* has been sent and no copy started.
C30_ReindexOutcome ==
    [][(pc \in ReindexAt /\ pc' # pc) =>
          /\ UNCHANGED <<indices, docs, mappings, blocks, pending, aliases, aliasFilters>>
          /\ pc' \in (ReindexAt \ {"reindex", pc}) \cup {"returned", "waitForCompletion"}
          /\ pc' \in ReindexAt =>
                /\ opErr' = Nil
                /\ UNCHANGED <<task, completeCount>>
                /\ "reindex" \notin issued'
          /\ pc' = "reindexStart" =>
                /\ pc = "reindexCountFrom"
                /\ count' = Cardinality(docs[currentIndexName])
          /\ pc' = "waitForCompletion" =>
                /\ pc = "reindexStart"
                /\ opErr' = Nil
                /\ {currentIndexName, newIndexName} \subseteq indices
                /\ completeCount' = count
                /\ completeCount' = Cardinality(docs[currentIndexName])
                /\ task = NoTask
                /\ task' = [src |-> currentIndexName, dest |-> newIndexName,
                            todo |-> docs[currentIndexName]]
                /\ "reindex" \in issued'
          /\ pc' = "returned" =>
                /\ opErr' # Nil
                /\ completeCount' = 0
                /\ UNCHANGED task
                /\ ret' = opErr'
                /\ ("reindex" \in issued') <=> (pc = "reindexStart")
          /\ ((pc = "reindex" /\ newIndexName \notin indices)
                \/ (pc = "reindexCountFrom" /\ currentIndexName \notin indices)) =>
                /\ pc' = "returned"
                /\ opErr' # ErrTransport =>
                     /\ Contains(opErr', "no such index")
                     /\ \E i \in {currentIndexName, newIndexName} \ indices :
                            Contains(opErr', i)
          /\ "reindex" \in issued' =>
                {currentIndexName, newIndexName} \subseteq indices
      ]_vars

\* reindex was called with a destination that does not exist, as in
\* TestReindexFailure: it has returned 0 and "no such index", no reindex
\* request was sent, no copy runs
C30_Witness ==
    /\ pc = "returned"
    /\ phase = "Copying"
    /\ OldIndexName \in indices
    /\ docs[OldIndexName] # {}
    /\ NewIndexName \notin indices
    /\ ret = ErrNoSuchIndex(NewIndexName)
    /\ completeCount = 0
    /\ task = NoTask
    /\ "count" \in issued
    /\ "reindex" \notin issued

(***************************************************************************)
(* What a run leaves alone, and what a failed run leaves behind.           *)
(***************************************************************************)
\* C31: no step takes an index or a document away; the only step that adds
\* an index is createIndex, adding the new index where it did not exist, and
\* a run sends that request at most once; a step of the run changes the
\* documents of no existing index (the old index gets documents only from
\* its clients, the new one only from the copy), so the old index is there
\* with its documents however the run ends.
C31_NothingDeleted ==
    [][/\ indices \subseteq indices'
       /\ \A i \in IndexNames : docs[i] \subseteq docs'[i]
       /\ indices' # indices =>
             /\ pc = "createIndex"
             /\ newIndexName \notin indices
             /\ indices' = indices \cup {newIndexName}
       /\ pc = "createIndex" => "createIndex" \notin issued
       /\ ("createIndex" \in issued /\ pc' # "MigrateIndex") => "createIndex" \in issued'
       /\ (pc' # pc \/ issued' # issued) => \A i \in indices : docs'[i] = docs[i]
       /\ \A i \in indices \ {task.dest} :
             docs'[i] # docs[i] => (alias0[AliasName] = {i} /\ ~WriteBlocked(i))
      ]_vars

\* a run has failed at the cutover, after the copy: the old index is there
\* with all its documents and the new one, created once, holds them too
C31_Witness ==
    /\ pc = "returned"
    /\ ret # Nil
    /\ phase = "Cutover"
    /\ "createIndex" \in issued
    /\ {OldIndexName, NewIndexName} \subseteq indices
    /\ Cardinality(docs[OldIndexName]) = MaxDocs
    /\ docs[NewIndexName] = docs[OldIndexName]
    /\ aliases[AliasName] = {OldIndexName}


(***************************************************************************)
(* The alias check on its own, in clusters whose index names carry the     *)
(* version in any of its spellings, for a required version in any of them. *)
(***************************************************************************)
VersionSpellings == {OldVersion, NextVersion, "v" \o NextVersion, NextVersion \o "+build.1"}

\* semver.MustParse: an optional leading "v" and the build metadata after
\* "+" are no part of the version
ParseVersion(v) ==
    LET bare == IF Len(v) > 0 /\ SubSeq(v, 1, 1) = "v" THEN SubSeq(v, 2, Len(v)) ELSE v
        plus == {i \in 1..Len(bare) : SubSeq(bare, i, i) = "+"}
    IN  IF plus = {} THEN bare
        ELSE SubSeq(bare, 1, (CHOOSE i \in plus : \A j \in plus : i <= j) - 1)

AliasCheckInit ==
    /\ indices \in SUBSET {RequiredIndex(AliasName, v) : v \in VersionSpellings}
    /\ aliases = [a \in AliasNames |-> indices]
    /\ docs = [i \in IndexNames |-> {}]
    /\ mappings = [i \in IndexNames |-> ""]
    /\ blocks = [i \in IndexNames |-> NoBlocks]
    /\ pending = {}
    /\ aliasFilters = [a \in AliasNames |-> ""]
    /\ task = NoTask
    /\ elasticClient = "ec1"
    /\ indexVersion \in VersionSpellings
    /\ mappingFile \in {TestNewMappingFile, NoSuchFile}
    /\ aliasFilterFile = ""
    /\ aliasForAllConcepts = ""
    /\ progress = "starting"
    /\ migrationCheck = FALSE
    /\ migrationErr = Nil
    /\ handlesLeft = MaxHandles - 1
    /\ pc = "checkIndexAliases"
    /\ client = "ec1"
    /\ requireUpdate = FALSE
    /\ currentIndexName = ""
    /\ newIndexName = ""
    /\ count = 0
    /\ completeCount = 0
    /\ taskErrCount = 0
    /\ history = <<>>
    /\ maxErrors = 0
    /\ ret = Nil
    /\ phase = "HealthGate"
    /\ issued = {"clusterHealth"}
    /\ aliasStart = aliases
    /\ alias0 = aliases
    /\ aliasReq = <<>>
    /\ opErr = Nil
    /\ lastPoll = NoPoll
    /\ faults = TRUE
    /\ mu = Unlocked
    /\ setter = NoSetter
    /\ checker = [h \in Checkers |-> NoChecker]
    /\ mcheck = NoMappingsCheck

AliasCheckNext ==
    \/ CheckIndexAliases
    \/ RecordErr
    \/ RecordCheck

AliasCheckSpec == AliasCheckInit /\ [][AliasCheckNext]_vars

\* C32: when the alias is on one index whose name ends in a spelling of the
\* required version, the alias check asks for no update, whether or not the
\* spelling is that of the configured version.
C32_StructuralCompare ==
    [][(pc = "checkIndexAliases" /\ pc' # pc /\ opErr' = Nil) =>
          \A X \in aliases[AliasName] :
             (/\ aliases[AliasName] = {X}
              /\ ParseVersion(SubSeq(X, Len(AliasName) + 2, Len(X)))
                    = ParseVersion(indexVersion)) =>
                ~requireUpdate'
      ]_vars

\* C33: a run returns nil only in a state where the alias is on exactly one
\* index, the one named alias-version; and whenever the mapping check
\* answers healthy, a run has been recorded and the alias is on that index.
C33_NilMeansRequired ==
    [][/\ (pc' = "returned" /\ pc # "returned" /\ ret' = Nil) =>
             aliases'[AliasName] = {AliasName \o "-" \o indexVersion}
       /\ (mcheck.pc # "idle" /\ mcheck'.pc = "idle" /\ MappingsAnswer'.err = Nil) =>
             /\ handlesLeft' < MaxHandles
             /\ aliases'[AliasName] = {AliasName \o "-" \o indexVersion}
      ]_vars

(***************************************************************************)
(* A run from one of its polling loops on, to its end, and the run that    *)
(* the next handle starts in the cluster it has left behind.               *)
(***************************************************************************)
AftermathInit == \E f \in {"", NoSuchFile} : PollInitFor(f)

AftermathNext ==
    \/ WaitForReadOnly
    \/ WaitForReadOnlyRetry
    \/ Reindex
    \/ WaitForCompletion
    \/ UpdateAlias
    \/ RecordErr
    \/ RecordCheck
    \/ \E ec \in Clients : Receive(ec)
    \/ HealthGate
    \/ CheckIndexAliases
    \/ CreateIndex
    \/ \E i \in IndexNames : ClientWrite(i)
    \/ \E i \in IndexNames : ApplyPending(i)
    \/ CopyStep

AftermathSpec == AftermathInit /\ [][AftermathNext]_vars

\* C34 as stated: when a run has failed after setReadOnly returned, the
\* confirmation of the write block included, the alias is on the old index
\* and the old index is read-only.
C34_ReadOnlyAfterAnyFailure ==
    (pc = "returned" /\ ret # Nil /\ "getSettings" \in issued) =>
        /\ aliases[AliasName] = {currentIndexName}
        /\ WriteBlocked(currentIndexName)

\* what a failed run leaves behind: the alias al on index i alone, which is
\* not the required one, the required index ix in existence, and the
\* goroutine p not further in a run than createIndex
LeftBehind(i, al, ix, p) ==
    /\ al[AliasName] = {i}
    /\ i # RequiredIndexName
    /\ RequiredIndexName \in ix
    /\ p \in {"returned", "recorded", "idle", "MigrateIndex", "checkIndexAliases",
              "createIndex"}

\* C34: no step clears a write block that is in force; when a run has failed
\* after the write block was confirmed (in reindex, while waiting for the
\* copy, at the filter file or at the alias request), the old index is
\* read-only and the alias is on it alone, with the new index in existence;
\* when it has failed during the confirmation the same holds but for the
\* write block; and no step, of this run or of a later one, leads out of
\* that situation.
C34_BlockStays ==
    /\ [][\A i \in IndexNames : WriteBlocked(i) => WriteBlocked(i)']_vars
    /\ []((pc = "returned" /\ ret # Nil /\ "count" \in issued) =>
            /\ WriteBlocked(currentIndexName)
            /\ LeftBehind(currentIndexName, aliases, indices, pc))
    /\ []((pc = "returned" /\ ret # Nil /\ "getSettings" \in issued) =>
            LeftBehind(currentIndexName, aliases, indices, pc))
    /\ [][\A i \in IndexNames :
            LeftBehind(i, aliases, indices, pc) => LeftBehind(i, aliases', indices', pc')]_vars

\* a second run has failed at createIndex in the cluster that a first run,
\* failed at the filter file, left behind: the old index has its write block
\* and the alias
C34_Witness ==
    /\ handlesLeft = MaxHandles - 2
    /\ pc = "returned"
    /\ Contains(ret, "already exists")
    /\ migrationErr = ReadFile(NoSuchFile).err
    /\ aliases[AliasName] = {OldIndexName}
    /\ WriteBlocked(OldIndexName)
    /\ docs[NewIndexName] = docs[OldIndexName]
    /\ docs[NewIndexName] # {}

\* C35: when a run has failed after its createIndex succeeded, the required
\* index exists and the alias is not on it; from then on no run gets past
\* createIndex: a run that reaches it with its request answered returns the
\* already-exists error, every later run returns an error, and the alias is
\* never moved.
C35_RetryFailsAtCreateIndex ==
    /\ []((/\ pc = "returned"
           /\ ret # Nil
           /\ "createIndex" \in issued
           /\ PhaseRank[phase] > PhaseRank["Provisioning"]) =>
             (RequiredIndexName \in indices /\ RequiredIndexName \notin aliases[AliasName]))
    /\ [][(/\ RequiredIndexName \in indices
           /\ aliases[AliasName] # {RequiredIndexName}
           /\ pc \in {"returned", "recorded", "idle", "MigrateIndex", "checkIndexAliases",
                      "createIndex"}) =>
             /\ UNCHANGED <<aliases, indices>>
             /\ pc' \in {"returned", "recorded", "idle", "MigrateIndex", "checkIndexAliases",
                         "createIndex"}
             /\ (pc' = "returned" /\ pc # "returned") => ret' # Nil
             /\ (pc = "createIndex" /\ pc' # pc) =>
                    opErr' \in {ErrAlreadyExists(newIndexName), ErrTransport,
                                ReadFile(NoSuchFile).err}
             /\ (pc = "createIndex" /\ "createIndex" \in issued') =>
                    opErr' \in {ErrAlreadyExists(newIndexName), ErrTransport}
      ]_vars

\* the first run created the new index and failed at the write block; the
\* second run has returned from createIndex with the already-exists error
C35_Witness ==
    /\ handlesLeft = MaxHandles - 2
    /\ pc = "returned"
    /\ phase = "Provisioning"
    /\ ret = ErrAlreadyExists(NewIndexName)
    /\ migrationErr = ErrTransport
    /\ mappings[NewIndexName] = ReadFile(TestNewMappingFile).data
    /\ aliases[AliasName] = {OldIndexName}

(***************************************************************************)
(* waitForCompletion, poll by poll.                                        *)
(***************************************************************************)
\* C36: an iteration of waitForCompletion whose count request failed either
\* ends the wait with that error or is followed by another iteration; the
\* wait does not end successfully on it.
C36_NoSuccessOnError ==
    [][(pc = "waitForCompletion" /\ lastPoll' # lastPoll /\ lastPoll'.err # Nil) =>
          \/ pc' = "waitForCompletion"
          \/ (pc' = "returned" /\ ret' = lastPoll'.err)
      ]_vars

\* C37: in a call that started with a budget of its own, meets no failed
\* request and finds the destination at one count, below the expected one,
\* the number of stall events after n polls is (n - 1) \div 5: the k-th is
\* raised at poll 5k + 1; the call goes on before poll 5 * budget + 1 and
\* returns the stalled error at that poll.
C37_StallEveryFivePolls ==
    (/\ phase = "WaitCompletion"
     /\ ~faults
     /\ maxErrors # MaxInt32
     /\ task.todo = {}
     /\ docs[NewIndexName] # docs[OldIndexName]
     /\ Cardinality(docs[NewIndexName]) < completeCount) =>
        /\ taskErrCount = (lastPoll.n - 1) \div HistoryLen
        /\ pc = "waitForCompletion" => lastPoll.n < HistoryLen * maxErrors + 1
        /\ pc # "waitForCompletion" =>
              /\ ret = ErrReindexStalled(NewIndexName)
              /\ lastPoll.n = HistoryLen * maxErrors + 1

\* a call with the largest budget of the model has returned the stalled
\* error at poll 5 * budget + 1
C37_Witness ==
    /\ pc = "returned"
    /\ ~faults
    /\ maxErrors = MaxTaskErrs
    /\ lastPoll.n = HistoryLen * MaxTaskErrs + 1
    /\ ret = ErrReindexStalled(NewIndexName)
    /\ Cardinality(docs[NewIndexName]) < completeCount
    /\ docs[NewIndexName] # {}

(***************************************************************************)
(* The mapping file.                                                       *)
(***************************************************************************)
\* C38: with a mapping file that cannot be read, no run sends a request that
\* changes the cluster and no step changes indices, write blocks or aliases;
\* a run that needs an update returns the error of the read, after the
\* aliases request and with nothing but reads sent; a run that needs no
\* update returns nil, the file playing no part.
C38_MappingUnreadable ==
    /\ [](mappingFile \notin DOMAIN Files =>
            /\ issued \cap WriteKinds = {}
            /\ (pc = "returned" /\ phase = "Provisioning") =>
                  /\ ret = "open " \o mappingFile \o ": no such file or directory"
                  /\ opErr = ret
                  /\ requireUpdate
                  /\ issued = {"clusterHealth", "aliases"}
            /\ (pc = "returned" /\ phase = "AliasCheck" /\ opErr = Nil) =>
                  /\ ~requireUpdate
                  /\ ret = Nil
                  /\ aliases[AliasName] = {RequiredIndexName}
            /\ (pc = "returned" /\ ret = "open " \o mappingFile \o ": no such file or directory") =>
                  phase = "Provisioning")
    /\ [][mappingFile \notin DOMAIN Files =>
            UNCHANGED <<indices, mappings, blocks, pending, aliases, aliasFilters, task>>]_vars
    /\ [][(pc = "checkIndexAliases" /\ pc' = "createIndex") => requireUpdate']_vars

\* a run has failed on the unreadable mapping file with the alias on the old
\* index: only the health and aliases requests were sent, no new index exists
C38_Witness ==
    /\ pc = "returned"
    /\ mappingFile = NoSuchFile
    /\ ret = "open " \o NoSuchFile \o ": no such file or directory"
    /\ phase = "Provisioning"
    /\ aliases[AliasName] = {OldIndexName}
    /\ indices = {OldIndexName}
    /\ docs[OldIndexName] # {}
    /\ issued = {"clusterHealth", "aliases"}

(***************************************************************************)
(* The lock with every goroutine scheduled: the supervisor goroutine and   *)
(* a health check that has begun keep running, sync.RWMutex grants a       *)
(* request it can grant, and the cluster-health request sent under the     *)
(* read lock (CheckRead) returns.  The arrival of handles and of health    *)
(* checks is owed by nobody.                                               *)
(***************************************************************************)
LockFairSpec ==
    /\ LockInit
    /\ [][LockNext]_vars
    /\ WF_vars(SetterLockRequest)
    /\ WF_vars(SetterLock)
    /\ WF_vars(SetterAssign)
    /\ WF_vars(SetterAssigned)
    /\ WF_vars(SetterUnlock)
    /\ WF_vars(MigrateStart)
    /\ WF_vars(MigrateRLock)
    /\ WF_vars(MigrateRead)
    /\ WF_vars(MigrateRUnlock)
    /\ \A h \in Checkers : WF_vars(CheckRLock(h))
    /\ \A h \in Checkers : WF_vars(CheckRead(h))
    /\ \A h \in Checkers : WF_vars(CheckRUnlock(h))

\* C39: whoever is about to ask for the read lock (a health check entering
\* esClient or GetClusterHealth, the goroutine entering the esClient or the
\* GetClusterHealth of its healthChecker or the esClient of MigrateIndex)
\* does not hold the read lock, and the supervisor goroutine, the only one
\* that ever takes the write lock, holds neither lock when it asks for
\* either; every request is eventually granted: the writer's Lock, the
\* goroutine's RLocks and the RLocks of every health check.
C39_LockGranted ==
    /\ [](\A h \in Checkers :
            checker[h].pc \in {"esClient", "GetClusterHealth"} => h \notin mu.r)
    /\ [](setter.pc \in {"healthChecker", "GetClusterHealth", "esClient"} =>
            Migrator \notin mu.r /\ ~mu.w)
    /\ [](setter.pc \in {"Lock", "LockWait"} => Migrator \notin mu.r /\ ~mu.w)
    /\ (setter.pc = "Lock") ~> (setter.pc = "assign" /\ mu.w)
    /\ (setter.pc \in {"healthChecker", "GetClusterHealth", "esClient"})
          ~> (Migrator \in mu.r)
    /\ \A h \in Checkers :
          (checker[h].pc \in {"esClient", "GetClusterHealth"}) ~> (h \in mu.r)

\* the writer waits for the lock with one health check inside GetClusterHealth
\* and the other kept out of esClient by the waiting writer
C39_Witness ==
    /\ setter.pc = "LockWait"
    /\ mu.waiting
    /\ mu.r = {"h1"}
    /\ checker["h1"].pc = "GetClusterHealthRead"
    /\ checker["h2"].pc = "esClient"
    /\ elasticClient # NilClient

====
